---- MODULE Spec2Model ----
(***************************************************************************)
(* Model of the rule composition and evaluation engine of tobbstr/rules:   *)
(* simple rules, the AND / OR / NOT combinators, the quantifiers           *)
(* AtLeast / Exactly / AtMost, mapped rules, and the Evaluator with its    *)
(* plain, detailed and short-circuit detailed modes.                       *)
(*                                                                         *)
(* A rule is a record [kind, name, fn, n, rules].  The name of a rule is   *)
(* its path from the root (a tuple of child indices), so that every node   *)
(* of a tree has a name of its own.  Every evaluation returns, with its    *)
(* Go result, the log of the user functions (predicates and mappers) it    *)
(* invoked, in invocation order: what a call counter would observe.       *)
(* Result.Duration is wall-clock time and is not modelled.                 *)
(***************************************************************************)
EXTENDS Integers, Sequences, FiniteSets, TLC

VARIABLES rule, input, pc, ret, calls, result, unsatisfied,
          registry, allocated, op, before,
          heap, builder, built, added

\* What the evaluator calls work on and return.
evaluatorVars == <<rule, input, pc, ret, calls, result, unsatisfied>>

\* The default registry, the number of rules constructed so far, the last
\* call that concerned the registry and the registry as that call found it.
registryVars == <<registry, allocated, op, before>>

\* The backing arrays of the slices, the Builder, the rules it has built
\* (each with the rules the Builder held at that moment) and the rules added
\* since the last Clear.
builderVars == <<heap, builder, built, added>>

vars == <<rule, input, pc, ret, calls, result, unsatisfied, registryVars, builderVars>>

(* ------------------------------ bounds --------------------------------- *)

\* A rule tree has at most MaxNodes nodes (a nil child counts as a node).
MaxNodes == 4

\* Quantifier thresholds are drawn from -1..MaxThreshold.
MaxThreshold == 2

\* The rules constructed while domains are inherited.
MaxRules == 3

\* The rules the registry's own calls are about.
MaxRegistered == 1

\* The rules a Builder holds at a time.
MaxCount == 4

\* The inputs rules are evaluated on.
Inputs == {0, 1}

Thresholds == (-1)..MaxThreshold

(* ------------------------------ errors --------------------------------- *)

\* The nil error.
NoError == [cause |-> "nil", chain |-> <<>>]

ErrNilRule == [cause |-> "ErrNilRule", chain |-> <<>>]

ErrEmptyRules == [cause |-> "ErrEmptyRules", chain |-> <<>>]

\* The error the failing user predicate returns.
ErrEvaluationFailed == [cause |-> "ErrEvaluationFailed", chain |-> <<>>]

\* fmt.Errorf("evaluating <role> %q: %w", name, err): one more context in
\* front of the chain, the cause stays recoverable (errors.Is).
Errorf(role, name, err) ==
  [cause |-> err.cause,
   chain |-> <<[role |-> role, name |-> name]>> \o err.chain]

(* ------------------------------- rules --------------------------------- *)

\* A nil Rule[T] value.
NilRule == [kind |-> "nil", name |-> <<>>, fn |-> "none", n |-> 0, rules |-> <<>>]

\* The user predicates: Always and Never, a predicate that depends on the
\* input, and one that fails; the failing one returns (true, err) on a
\* positive input and (false, err) otherwise.
Predicates == {"Always", "Never", "positive", "failing"}

\* The quantifier closures.
Quantifiers == {"AtLeast", "Exactly", "AtMost"}

\* The user mappers (extractors).
Mappers == {"next"}

New(name, predicate) ==
  [kind |-> "simple", name |-> name, fn |-> predicate, n |-> 0, rules |-> <<>>]

And(name, rules) ==
  [kind |-> "and", name |-> name, fn |-> "none", n |-> 0, rules |-> rules]

Or(name, rules) ==
  [kind |-> "or", name |-> name, fn |-> "none", n |-> 0, rules |-> rules]

Not(name, r) ==
  [kind |-> "not", name |-> name, fn |-> "none", n |-> 0, rules |-> <<r>>]

Map(name, r, mapper) ==
  [kind |-> "mapped", name |-> name, fn |-> mapper, n |-> 0, rules |-> <<r>>]

\* Combine building an OR of the two mapped rules.
CombineAsOr(name, rule1, extractor1, rule2, extractor2) ==
  Or(name, <<Map(Append(name, 1), rule1, extractor1),
             Map(Append(name, 2), rule2, extractor2)>>)

\* Combine, Combine3, CombineMany: an AND rule over mapped rules; the mapped
\* rules "extracted-1", "extracted-2", "extracted-3" are named by their
\* place under the AND.
Combine(name, rule1, extractor1, rule2, extractor2) ==
  And(name, <<Map(Append(name, 1), rule1, extractor1),
              Map(Append(name, 2), rule2, extractor2)>>)

Combine3(name, rule1, extractor1, rule2, extractor2, rule3, extractor3) ==
  And(name, <<Map(Append(name, 1), rule1, extractor1),
              Map(Append(name, 2), rule2, extractor2),
              Map(Append(name, 3), rule3, extractor3)>>)

CombineMany(name, mappedRules) == And(name, mappedRules)

\* AtLeast, Exactly, AtMost: a simple rule whose predicate is a closure over
\* n and the child rules.
AtLeast(name, n, rules) ==
  [kind |-> "simple", name |-> name, fn |-> "AtLeast", n |-> n, rules |-> rules]

Exactly(name, n, rules) ==
  [kind |-> "simple", name |-> name, fn |-> "Exactly", n |-> n, rules |-> rules]

AtMost(name, n, rules) ==
  [kind |-> "simple", name |-> name, fn |-> "AtMost", n |-> n, rules |-> rules]

\* The quantifier constructor named q.
Quantifier(q, name, n, rules) ==
  CASE q = "AtLeast" -> AtLeast(name, n, rules)
    [] q = "Exactly" -> Exactly(name, n, rules)
    [] q = "AtMost"  -> AtMost(name, n, rules)

\* Name(): the name a rule was built with.
Name(r) == r.name

(* --------------------------- user functions ---------------------------- *)

\* What an evaluation returns: the Go pair (satisfied, err) and the log of
\* user functions invoked.
Return(satisfied, err, log) == [satisfied |-> satisfied, err |-> err, calls |-> log]

Call(fn, name, arg) == [fn |-> fn, name |-> name, arg |-> arg]

\* The user predicates, applied to an input.
UserPredicate(name, fn, x) ==
  LET log == <<Call(fn, name, x)>> IN
  CASE fn = "Always"   -> Return(TRUE, NoError, log)
    [] fn = "Never"    -> Return(FALSE, NoError, log)
    [] fn = "positive" -> Return(x > 0, NoError, log)
    [] fn = "failing"  -> Return(x > 0, ErrEvaluationFailed, log)

\* The user mapper: the other input.
Mapper(fn, x) == 1 - x

(* ----------------------------- Evaluate -------------------------------- *)

RECURSIVE Evaluate(_, _)
RECURSIVE andRuleLoop(_, _, _, _)
RECURSIVE orRuleLoop(_, _, _, _)
RECURSIVE AtLeastLoop(_, _, _, _, _)
RECURSIVE ExactlyLoop(_, _, _, _, _)
RECURSIVE AtMostLoop(_, _, _, _, _)

\* AtLeastLoop taking a nil child for an error, as AND and OR do.
AtLeastLoopNilIsError(r, x, i, satisfied, log) ==
  IF i > Len(r.rules) THEN Return(satisfied >= r.n, NoError, log)
  ELSE IF r.rules[i] = NilRule THEN Return(FALSE, ErrNilRule, log)
  ELSE LET res == Evaluate(r.rules[i], x)
           log2 == log \o res.calls
       IN IF res.err # NoError THEN Return(FALSE, res.err, log2)
          ELSE IF res.satisfied
               THEN IF satisfied + 1 >= r.n THEN Return(TRUE, NoError, log2)
                    ELSE AtLeastLoop(r, x, i + 1, satisfied + 1, log2)
               ELSE AtLeastLoop(r, x, i + 1, satisfied, log2)

\* AtLeastLoop taking a child's error for an unsatisfied child.
AtLeastLoopSwallowsError(r, x, i, satisfied, log) ==
  IF i > Len(r.rules) THEN Return(satisfied >= r.n, NoError, log)
  ELSE IF r.rules[i] = NilRule THEN AtLeastLoop(r, x, i + 1, satisfied, log)
  ELSE LET res == Evaluate(r.rules[i], x)
           log2 == log \o res.calls
       IN IF res.err = NoError /\ res.satisfied
          THEN IF satisfied + 1 >= r.n THEN Return(TRUE, NoError, log2)
               ELSE AtLeastLoop(r, x, i + 1, satisfied + 1, log2)
          ELSE AtLeastLoop(r, x, i + 1, satisfied, log2)

\* The closure of AtLeast from child i on, with `satisfied` children counted
\* so far: nil children are skipped, a child's error is returned as it is.
AtLeastLoop(r, x, i, satisfied, log) ==
  IF i > Len(r.rules) THEN Return(satisfied >= r.n, NoError, log)
  ELSE IF r.rules[i] = NilRule THEN AtLeastLoop(r, x, i + 1, satisfied, log)
  ELSE LET res == Evaluate(r.rules[i], x)
           log2 == log \o res.calls
       IN IF res.err # NoError THEN Return(FALSE, res.err, log2)
          ELSE IF res.satisfied
               THEN IF satisfied + 1 >= r.n THEN Return(TRUE, NoError, log2)
                    ELSE AtLeastLoop(r, x, i + 1, satisfied + 1, log2)
               ELSE AtLeastLoop(r, x, i + 1, satisfied, log2)

\* ExactlyLoop giving up once the count has exceeded n.
ExactlyLoopEarlyExit(r, x, i, satisfied, log) ==
  IF i > Len(r.rules) THEN Return(satisfied = r.n, NoError, log)
  ELSE IF r.rules[i] = NilRule THEN ExactlyLoop(r, x, i + 1, satisfied, log)
  ELSE LET res == Evaluate(r.rules[i], x)
           log2 == log \o res.calls
       IN IF res.err # NoError THEN Return(FALSE, res.err, log2)
          ELSE IF res.satisfied
               THEN IF satisfied + 1 > r.n THEN Return(FALSE, NoError, log2)
                    ELSE ExactlyLoop(r, x, i + 1, satisfied + 1, log2)
               ELSE ExactlyLoop(r, x, i + 1, satisfied, log2)

\* The closure of Exactly: counts over all non-nil children.
ExactlyLoop(r, x, i, satisfied, log) ==
  IF i > Len(r.rules) THEN Return(satisfied = r.n, NoError, log)
  ELSE IF r.rules[i] = NilRule THEN ExactlyLoop(r, x, i + 1, satisfied, log)
  ELSE LET res == Evaluate(r.rules[i], x)
           log2 == log \o res.calls
       IN IF res.err # NoError THEN Return(FALSE, res.err, log2)
          ELSE IF res.satisfied
               THEN ExactlyLoop(r, x, i + 1, satisfied + 1, log2)
               ELSE ExactlyLoop(r, x, i + 1, satisfied, log2)

\* The closure of AtMost: false once the count exceeds n, true otherwise.
AtMostLoop(r, x, i, satisfied, log) ==
  IF i > Len(r.rules) THEN Return(TRUE, NoError, log)
  ELSE IF r.rules[i] = NilRule THEN AtMostLoop(r, x, i + 1, satisfied, log)
  ELSE LET res == Evaluate(r.rules[i], x)
           log2 == log \o res.calls
       IN IF res.err # NoError THEN Return(FALSE, res.err, log2)
          ELSE IF res.satisfied
               THEN IF satisfied + 1 > r.n THEN Return(FALSE, NoError, log2)
                    ELSE AtMostLoop(r, x, i + 1, satisfied + 1, log2)
               ELSE AtMostLoop(r, x, i + 1, satisfied, log2)

\* r.predicate(input) of a simple rule: a user predicate or a quantifier
\* closure.
predicate(r, x) ==
  CASE r.fn = "AtLeast" -> AtLeastLoop(r, x, 1, 0, <<>>)
    [] r.fn = "Exactly" -> ExactlyLoop(r, x, 1, 0, <<>>)
    [] r.fn = "AtMost"  -> AtMostLoop(r, x, 1, 0, <<>>)
    [] OTHER            -> UserPredicate(r.name, r.fn, x)

\* simpleRule.Evaluate returning the predicate's boolean with the error.
simpleRuleEvaluateKeepsBoolean(r, x) ==
  LET res == predicate(r, x) IN
  IF res.err # NoError
  THEN Return(res.satisfied, Errorf("rule", r.name, res.err), res.calls)
  ELSE Return(res.satisfied, NoError, res.calls)

\* simpleRule.Evaluate: the predicate's boolean, or false and the wrapped
\* error.
simpleRuleEvaluate(r, x) ==
  LET res == predicate(r, x) IN
  IF res.err # NoError
  THEN Return(FALSE, Errorf("rule", r.name, res.err), res.calls)
  ELSE Return(res.satisfied, NoError, res.calls)

\* andRuleLoop with the return on an unsatisfied child left out.
andRuleLoopIgnoresUnsatisfied(r, x, i, log) ==
  IF i > Len(r.rules) THEN Return(TRUE, NoError, log)
  ELSE IF r.rules[i] = NilRule
  THEN Return(FALSE, Errorf("AND rule", r.name, ErrNilRule), log)
  ELSE LET res == Evaluate(r.rules[i], x)
           log2 == log \o res.calls
       IN IF res.err # NoError
          THEN Return(FALSE, Errorf("AND rule", r.name, res.err), log2)
          ELSE andRuleLoop(r, x, i + 1, log2)

\* andRuleLoop without the short circuit: an unsatisfied child makes the
\* result false, and the remaining children are evaluated all the same.
andRuleLoopNoShortCircuit(r, x, i, log) ==
  IF i > Len(r.rules) THEN Return(TRUE, NoError, log)
  ELSE IF r.rules[i] = NilRule
  THEN Return(FALSE, Errorf("AND rule", r.name, ErrNilRule), log)
  ELSE LET res == Evaluate(r.rules[i], x)
           log2 == log \o res.calls
       IN IF res.err # NoError
          THEN Return(FALSE, Errorf("AND rule", r.name, res.err), log2)
          ELSE IF ~res.satisfied
               THEN LET rest == andRuleLoop(r, x, i + 1, log2)
                    IN Return(FALSE, rest.err, rest.calls)
          ELSE andRuleLoop(r, x, i + 1, log2)

\* andRuleLoop skipping a nil child, as the quantifiers do.
andRuleLoopSkipsNil(r, x, i, log) ==
  IF i > Len(r.rules) THEN Return(TRUE, NoError, log)
  ELSE IF r.rules[i] = NilRule THEN andRuleLoop(r, x, i + 1, log)
  ELSE LET res == Evaluate(r.rules[i], x)
           log2 == log \o res.calls
       IN IF res.err # NoError
          THEN Return(FALSE, Errorf("AND rule", r.name, res.err), log2)
          ELSE IF ~res.satisfied THEN Return(FALSE, NoError, log2)
          ELSE andRuleLoop(r, x, i + 1, log2)

\* The loop of andRule.Evaluate from child i on.
andRuleLoop(r, x, i, log) ==
  IF i > Len(r.rules) THEN Return(TRUE, NoError, log)
  ELSE IF r.rules[i] = NilRule
  THEN Return(FALSE, Errorf("AND rule", r.name, ErrNilRule), log)
  ELSE LET res == Evaluate(r.rules[i], x)
           log2 == log \o res.calls
       IN IF res.err # NoError
          THEN Return(FALSE, Errorf("AND rule", r.name, res.err), log2)
          ELSE IF ~res.satisfied THEN Return(FALSE, NoError, log2)
          ELSE andRuleLoop(r, x, i + 1, log2)

\* andRule.Evaluate with an empty AND vacuously true.
andRuleEvaluateVacuous(r, x) ==
  IF Len(r.rules) = 0
  THEN Return(TRUE, NoError, <<>>)
  ELSE andRuleLoop(r, x, 1, <<>>)

andRuleEvaluate(r, x) ==
  IF Len(r.rules) = 0
  THEN Return(FALSE, Errorf("AND rule", r.name, ErrEmptyRules), <<>>)
  ELSE andRuleLoop(r, x, 1, <<>>)

\* orRuleLoop returning at the first child, satisfied or not.
orRuleLoopFirstChildOnly(r, x, i, log) ==
  IF i > Len(r.rules) THEN Return(FALSE, NoError, log)
  ELSE IF r.rules[i] = NilRule
  THEN Return(FALSE, Errorf("OR rule", r.name, ErrNilRule), log)
  ELSE LET res == Evaluate(r.rules[i], x)
           log2 == log \o res.calls
       IN IF res.err # NoError
          THEN Return(FALSE, Errorf("OR rule", r.name, res.err), log2)
          ELSE Return(res.satisfied, NoError, log2)

\* orRuleLoop taking a child's error for an unsatisfied child.
orRuleLoopSwallowsError(r, x, i, log) ==
  IF i > Len(r.rules) THEN Return(FALSE, NoError, log)
  ELSE IF r.rules[i] = NilRule
  THEN Return(FALSE, Errorf("OR rule", r.name, ErrNilRule), log)
  ELSE LET res == Evaluate(r.rules[i], x)
           log2 == log \o res.calls
       IN IF res.err = NoError /\ res.satisfied THEN Return(TRUE, NoError, log2)
          ELSE orRuleLoop(r, x, i + 1, log2)

\* The loop of orRule.Evaluate from child i on.
orRuleLoop(r, x, i, log) ==
  IF i > Len(r.rules) THEN Return(FALSE, NoError, log)
  ELSE IF r.rules[i] = NilRule
  THEN Return(FALSE, Errorf("OR rule", r.name, ErrNilRule), log)
  ELSE LET res == Evaluate(r.rules[i], x)
           log2 == log \o res.calls
       IN IF res.err # NoError
          THEN Return(FALSE, Errorf("OR rule", r.name, res.err), log2)
          ELSE IF res.satisfied THEN Return(TRUE, NoError, log2)
          ELSE orRuleLoop(r, x, i + 1, log2)

orRuleEvaluate(r, x) ==
  IF Len(r.rules) = 0
  THEN Return(FALSE, Errorf("OR rule", r.name, ErrEmptyRules), <<>>)
  ELSE orRuleLoop(r, x, 1, <<>>)

\* notRule.Evaluate without the negation.
notRuleEvaluateNoNegation(r, x) ==
  IF r.rules[1] = NilRule
  THEN Return(FALSE, Errorf("NOT rule", r.name, ErrNilRule), <<>>)
  ELSE LET res == Evaluate(r.rules[1], x) IN
       IF res.err # NoError
       THEN Return(FALSE, Errorf("NOT rule", r.name, res.err), res.calls)
       ELSE Return(res.satisfied, NoError, res.calls)

\* notRule.Evaluate returning the child's error as it is.
notRuleEvaluateUnwrapped(r, x) ==
  IF r.rules[1] = NilRule
  THEN Return(FALSE, Errorf("NOT rule", r.name, ErrNilRule), <<>>)
  ELSE LET res == Evaluate(r.rules[1], x) IN
       IF res.err # NoError
       THEN Return(FALSE, res.err, res.calls)
       ELSE Return(~res.satisfied, NoError, res.calls)

notRuleEvaluate(r, x) ==
  IF r.rules[1] = NilRule
  THEN Return(FALSE, Errorf("NOT rule", r.name, ErrNilRule), <<>>)
  ELSE LET res == Evaluate(r.rules[1], x) IN
       IF res.err # NoError
       THEN Return(FALSE, Errorf("NOT rule", r.name, res.err), res.calls)
       ELSE Return(~res.satisfied, NoError, res.calls)

\* mappedRule.Evaluate handing the inner rule the source input instead of
\* the mapper's output.
mappedRuleEvaluatePassesInput(r, x) ==
  IF r.rules[1] = NilRule
  THEN Return(FALSE, Errorf("mapped rule", r.name, ErrNilRule), <<>>)
  ELSE LET res == Evaluate(r.rules[1], x)
           log == <<Call(r.fn, r.name, x)>> \o res.calls
       IN IF res.err # NoError
          THEN Return(FALSE, Errorf("mapped rule", r.name, res.err), log)
          ELSE Return(res.satisfied, NoError, log)

\* mappedRule.Evaluate applying the mapper before it looks at the inner rule.
mappedRuleEvaluateMapsFirst(r, x) ==
  LET first == <<Call(r.fn, r.name, x)>> IN
  IF r.rules[1] = NilRule
  THEN Return(FALSE, Errorf("mapped rule", r.name, ErrNilRule), first)
  ELSE LET res == Evaluate(r.rules[1], Mapper(r.fn, x))
           log == first \o res.calls
       IN IF res.err # NoError
          THEN Return(FALSE, Errorf("mapped rule", r.name, res.err), log)
          ELSE Return(res.satisfied, NoError, log)

\* mappedRule.Evaluate: the mapper is applied, then the inner rule is
\* evaluated on the mapper's output.
mappedRuleEvaluate(r, x) ==
  IF r.rules[1] = NilRule
  THEN Return(FALSE, Errorf("mapped rule", r.name, ErrNilRule), <<>>)
  ELSE LET target == Mapper(r.fn, x)
           res == Evaluate(r.rules[1], target)
           log == <<Call(r.fn, r.name, x)>> \o res.calls
       IN IF res.err # NoError
          THEN Return(FALSE, Errorf("mapped rule", r.name, res.err), log)
          ELSE Return(res.satisfied, NoError, log)

\* Rule.Evaluate, dispatched on the rule's dynamic type.
Evaluate(r, x) ==
  CASE r.kind = "simple" -> simpleRuleEvaluate(r, x)
    [] r.kind = "and"    -> andRuleEvaluate(r, x)
    [] r.kind = "or"     -> orRuleEvaluate(r, x)
    [] r.kind = "not"    -> notRuleEvaluate(r, x)
    [] r.kind = "mapped" -> mappedRuleEvaluate(r, x)

(* ----------------------------- Evaluator ------------------------------- *)

\* The Result struct, without its Duration.
Result(satisfied, name, err, children) ==
  [Satisfied |-> satisfied, RuleName |-> name, Error |-> err, Children |-> children]

\* The local variables of evaluateRuleDetailed when its switch is left, and
\* the log of user functions invoked.
Locals(satisfied, err, children, log) ==
  [satisfied |-> satisfied, err |-> err, children |-> children, calls |-> log]

RECURSIVE evaluateRuleDetailed(_, _, _)
RECURSIVE detailedAndLoop(_, _, _, _, _, _, _)
RECURSIVE detailedOrLoop(_, _, _, _, _, _, _)

\* The *andRule loop forgetting an unsatisfied child it does not stop at.
detailedAndLoopKeepsSatisfied(r, x, shortCircuit, i, satisfied, children, log) ==
  IF i > Len(r.rules) THEN Locals(satisfied, NoError, children, log)
  ELSE IF r.rules[i] = NilRule THEN Locals(FALSE, ErrNilRule, children, log)
  ELSE LET child == evaluateRuleDetailed(r.rules[i], x, shortCircuit)
           children2 == Append(children, child.result)
           log2 == log \o child.calls
       IN IF child.result.Error # NoError
          THEN Locals(FALSE, child.result.Error, children2, log2)
          ELSE IF ~child.result.Satisfied /\ shortCircuit
               THEN Locals(FALSE, NoError, children2, log2)
               ELSE detailedAndLoop(r, x, shortCircuit, i + 1, satisfied, children2, log2)

\* The *andRule loop leaving at the first unsatisfied child in both modes.
detailedAndLoopAlwaysBreaks(r, x, shortCircuit, i, satisfied, children, log) ==
  IF i > Len(r.rules) THEN Locals(satisfied, NoError, children, log)
  ELSE IF r.rules[i] = NilRule THEN Locals(FALSE, ErrNilRule, children, log)
  ELSE LET child == evaluateRuleDetailed(r.rules[i], x, shortCircuit)
           children2 == Append(children, child.result)
           log2 == log \o child.calls
       IN IF child.result.Error # NoError
          THEN Locals(FALSE, child.result.Error, children2, log2)
          ELSE IF ~child.result.Satisfied
               THEN Locals(FALSE, NoError, children2, log2)
               ELSE detailedAndLoop(r, x, shortCircuit, i + 1, satisfied, children2, log2)

\* The loop of the *andRule case from child i on.
detailedAndLoop(r, x, shortCircuit, i, satisfied, children, log) ==
  IF i > Len(r.rules) THEN Locals(satisfied, NoError, children, log)
  ELSE IF r.rules[i] = NilRule THEN Locals(FALSE, ErrNilRule, children, log)
  ELSE LET child == evaluateRuleDetailed(r.rules[i], x, shortCircuit)
           children2 == Append(children, child.result)
           log2 == log \o child.calls
       IN IF child.result.Error # NoError
          THEN Locals(FALSE, child.result.Error, children2, log2)
          ELSE IF ~child.result.Satisfied
               THEN IF shortCircuit THEN Locals(FALSE, NoError, children2, log2)
                    ELSE detailedAndLoop(r, x, shortCircuit, i + 1, FALSE, children2, log2)
               ELSE detailedAndLoop(r, x, shortCircuit, i + 1, satisfied, children2, log2)

\* The *orRule loop putting each child result in front of the earlier ones.
detailedOrLoopPrepends(r, x, shortCircuit, i, satisfied, children, log) ==
  IF i > Len(r.rules) THEN Locals(satisfied, NoError, children, log)
  ELSE IF r.rules[i] = NilRule THEN Locals(FALSE, ErrNilRule, children, log)
  ELSE LET child == evaluateRuleDetailed(r.rules[i], x, shortCircuit)
           children2 == <<child.result>> \o children
           log2 == log \o child.calls
       IN IF child.result.Error # NoError
          THEN Locals(FALSE, child.result.Error, children2, log2)
          ELSE IF child.result.Satisfied
               THEN IF shortCircuit THEN Locals(TRUE, NoError, children2, log2)
                    ELSE detailedOrLoop(r, x, shortCircuit, i + 1, TRUE, children2, log2)
               ELSE detailedOrLoop(r, x, shortCircuit, i + 1, satisfied, children2, log2)

\* The *orRule loop going on after a child result that carries an error.
detailedOrLoopSwallowsError(r, x, shortCircuit, i, satisfied, children, log) ==
  IF i > Len(r.rules) THEN Locals(satisfied, NoError, children, log)
  ELSE IF r.rules[i] = NilRule THEN Locals(FALSE, ErrNilRule, children, log)
  ELSE LET child == evaluateRuleDetailed(r.rules[i], x, shortCircuit)
           children2 == Append(children, child.result)
           log2 == log \o child.calls
       IN IF child.result.Error = NoError /\ child.result.Satisfied
          THEN IF shortCircuit THEN Locals(TRUE, NoError, children2, log2)
               ELSE detailedOrLoop(r, x, shortCircuit, i + 1, TRUE, children2, log2)
          ELSE detailedOrLoop(r, x, shortCircuit, i + 1, satisfied, children2, log2)

\* The *orRule loop going on after a satisfied child in both modes.
detailedOrLoopNeverBreaks(r, x, shortCircuit, i, satisfied, children, log) ==
  IF i > Len(r.rules) THEN Locals(satisfied, NoError, children, log)
  ELSE IF r.rules[i] = NilRule THEN Locals(FALSE, ErrNilRule, children, log)
  ELSE LET child == evaluateRuleDetailed(r.rules[i], x, shortCircuit)
           children2 == Append(children, child.result)
           log2 == log \o child.calls
       IN IF child.result.Error # NoError
          THEN Locals(FALSE, child.result.Error, children2, log2)
          ELSE IF child.result.Satisfied
               THEN detailedOrLoop(r, x, shortCircuit, i + 1, TRUE, children2, log2)
               ELSE detailedOrLoop(r, x, shortCircuit, i + 1, satisfied, children2, log2)

\* The loop of the *orRule case from child i on.
detailedOrLoop(r, x, shortCircuit, i, satisfied, children, log) ==
  IF i > Len(r.rules) THEN Locals(satisfied, NoError, children, log)
  ELSE IF r.rules[i] = NilRule THEN Locals(FALSE, ErrNilRule, children, log)
  ELSE LET child == evaluateRuleDetailed(r.rules[i], x, shortCircuit)
           children2 == Append(children, child.result)
           log2 == log \o child.calls
       IN IF child.result.Error # NoError
          THEN Locals(FALSE, child.result.Error, children2, log2)
          ELSE IF child.result.Satisfied
               THEN IF shortCircuit THEN Locals(TRUE, NoError, children2, log2)
                    ELSE detailedOrLoop(r, x, shortCircuit, i + 1, TRUE, children2, log2)
               ELSE detailedOrLoop(r, x, shortCircuit, i + 1, satisfied, children2, log2)

\* The *notRule case handing on the child's verdict.
detailedNotKeepsVerdict(r, x, shortCircuit) ==
  IF r.rules[1] = NilRule THEN Locals(FALSE, ErrNilRule, <<>>, <<>>)
  ELSE LET child == evaluateRuleDetailed(r.rules[1], x, shortCircuit) IN
       IF child.result.Error # NoError
       THEN Locals(FALSE, child.result.Error, <<child.result>>, child.calls)
       ELSE Locals(child.result.Satisfied, NoError, <<child.result>>, child.calls)

\* The *notRule case.
detailedNot(r, x, shortCircuit) ==
  IF r.rules[1] = NilRule THEN Locals(FALSE, ErrNilRule, <<>>, <<>>)
  ELSE LET child == evaluateRuleDetailed(r.rules[1], x, shortCircuit) IN
       IF child.result.Error # NoError
       THEN Locals(FALSE, child.result.Error, <<child.result>>, child.calls)
       ELSE Locals(~child.result.Satisfied, NoError, <<child.result>>, child.calls)

\* The default case: every other rule is evaluated directly.
detailedDefault(r, x) ==
  LET res == Evaluate(r, x) IN Locals(res.satisfied, res.err, <<>>, res.calls)

\* evaluateRuleDetailed as it was before the parent's verdict was computed
\* from the child results: after the children, the rule's own Evaluate.
evaluateRuleDetailedThenEvaluate(r, x, shortCircuit) ==
  LET l == CASE r.kind = "and" ->
                  IF Len(r.rules) = 0 THEN Locals(FALSE, ErrEmptyRules, <<>>, <<>>)
                  ELSE detailedAndLoop(r, x, shortCircuit, 1, TRUE, <<>>, <<>>)
             [] r.kind = "or" ->
                  IF Len(r.rules) = 0 THEN Locals(FALSE, ErrEmptyRules, <<>>, <<>>)
                  ELSE detailedOrLoop(r, x, shortCircuit, 1, FALSE, <<>>, <<>>)
             [] r.kind = "not" -> detailedNot(r, x, shortCircuit)
             [] OTHER -> Locals(FALSE, NoError, <<>>, <<>>)
      res == Evaluate(r, x)
  IN [result |-> Result(res.satisfied, Name(r), res.err, l.children),
      calls |-> l.calls \o res.calls]

\* Evaluator.evaluateRuleDetailed: the type switch, then the Result.
evaluateRuleDetailed(r, x, shortCircuit) ==
  LET l == CASE r.kind = "and" ->
                  IF Len(r.rules) = 0 THEN Locals(FALSE, ErrEmptyRules, <<>>, <<>>)
                  ELSE detailedAndLoop(r, x, shortCircuit, 1, TRUE, <<>>, <<>>)
             [] r.kind = "or" ->
                  IF Len(r.rules) = 0 THEN Locals(FALSE, ErrEmptyRules, <<>>, <<>>)
                  ELSE detailedOrLoop(r, x, shortCircuit, 1, FALSE, <<>>, <<>>)
             [] r.kind = "not" -> detailedNot(r, x, shortCircuit)
             [] OTHER -> detailedDefault(r, x)
  IN [result |-> Result(l.satisfied, Name(r), l.err, l.children), calls |-> l.calls]

\* Evaluator.Evaluate: one call of the root's Evaluate, no children.
EvaluatorEvaluate(r, x) ==
  LET res == Evaluate(r, x) IN
  [result |-> Result(res.satisfied, Name(r), res.err, <<>>), calls |-> res.calls]

RECURSIVE UnsatisfiedRules(_)
RECURSIVE UnsatisfiedRulesOnlyBelowUnsatisfied(_)

\* UnsatisfiedRules leaving out what lies below a satisfied node.
UnsatisfiedRulesOnlyBelowUnsatisfied(res) ==
  LET RECURSIVE Below(_)
      Below(i) == IF i > Len(res.Children) THEN <<>>
                  ELSE UnsatisfiedRules(res.Children[i]) \o Below(i + 1)
  IN IF res.Satisfied THEN <<>> ELSE <<res.RuleName>> \o Below(1)

\* Result.UnsatisfiedRules: the name of the node if it is not satisfied,
\* then the unsatisfied rules of each child, from left to right.
UnsatisfiedRules(res) ==
  LET RECURSIVE Below(_)
      Below(i) == IF i > Len(res.Children) THEN <<>>
                  ELSE UnsatisfiedRules(res.Children[i]) \o Below(i + 1)
  IN (IF res.Satisfied THEN <<>> ELSE <<res.RuleName>>) \o Below(1)

(* ------------------------- the rules evaluated ------------------------- *)

RECURSIVE Rules(_, _)
RECURSIVE RuleLists(_, _, _)
RECURSIVE RuleListsFrom(_, _, _, _)
RECURSIVE Nodes(_)

\* The number of nodes of a rule tree; a nil child counts as one.
Nodes(r) ==
  LET RECURSIVE Sum(_)
      Sum(i) == IF i > Len(r.rules) THEN 0 ELSE Nodes(r.rules[i]) + Sum(i + 1)
  IN 1 + Sum(1)

\* A child named `name` of exactly k nodes: nil or a rule.
Children(name, k) ==
  IF k < 1 THEN {}
  ELSE { c \in {NilRule} \cup Rules(name, k) : Nodes(c) = k }

\* The non-empty child lists of the rule named `name`, from child i on, of
\* at most b nodes in all, whose first child has at least k nodes.
RuleListsFrom(name, i, b, k) ==
  IF k > b THEN {}
  ELSE { <<c>> \o rest : c \in Children(Append(name, i), k),
                         rest \in RuleLists(name, i + 1, b - k) }
       \cup RuleListsFrom(name, i, b, k + 1)

\* The child lists of the rule named `name`, from child i on, of at most b
\* nodes in all.
RuleLists(name, i, b) == {<<>>} \cup RuleListsFrom(name, i, b, 1)

\* The rules named `name` built of simple, AND, OR, NOT and mapped rules, of
\* at most b nodes.
Rules(name, b) ==
  IF b < 1 THEN {}
  ELSE LET only == IF b < 2 THEN {} ELSE {NilRule} \cup Rules(Append(name, 1), b - 1)
       IN { New(name, p) : p \in Predicates }
          \cup { And(name, rs) : rs \in RuleLists(name, 1, b - 1) }
          \cup { Or(name, rs) : rs \in RuleLists(name, 1, b - 1) }
          \cup { Not(name, c) : c \in only }
          \cup { Map(name, c, m) : c \in only, m \in Mappers }

RECURSIVE LeafLists(_, _, _)
\* The lists of at most b one-node children (nil, a user rule, an empty AND
\* or OR) of the rule named `name`, from child i on.
LeafLists(name, i, b) ==
  IF b < 1 THEN {<<>>}
  ELSE {<<>>} \cup { <<c>> \o rest : c \in Children(Append(name, i), 1),
                                     rest \in LeafLists(name, i + 1, b - 1) }

\* The quantifier rules named `name` of at most b nodes, over such children.
QuantifierRules(name, b) ==
  { Quantifier(q, name, n, rs) : q \in Quantifiers, n \in Thresholds,
                                 rs \in LeafLists(name, 1, b - 1) }

\* The rule handed to the i-th extractor of the combination named `name`:
\* nil, a user rule, an empty AND or OR.
Extracted(name, i) == Children(Append(Append(name, i), 1), 1)

\* The list entries CombineMany is called with: nil, or a mapped rule over
\* such a rule.
MappedRules(name, i) ==
  {NilRule} \cup { Map(Append(name, i), c, m) : c \in Extracted(name, i), m \in Mappers }

\* The rules named `name` built by Combine, by Combine3, and by CombineMany
\* over at most two entries.
CombineRules(name) ==
  { Combine(name, r1, m1, r2, m2) :
      r1 \in Extracted(name, 1), m1 \in Mappers,
      r2 \in Extracted(name, 2), m2 \in Mappers }

Combine3Rules(name) ==
  { Combine3(name, r1, m1, r2, m2, r3, m3) :
      r1 \in Extracted(name, 1), m1 \in Mappers,
      r2 \in Extracted(name, 2), m2 \in Mappers,
      r3 \in Extracted(name, 3), m3 \in Mappers }

CombineManyRules(name) ==
  { CombineMany(name, rs) :
      rs \in {<<>>} \cup { <<a>> : a \in MappedRules(name, 1) }
                    \cup { <<a, b>> : a \in MappedRules(name, 1), b \in MappedRules(name, 2) } }

\* The root rules are named by the empty path.
RootName == <<>>

(* ----------------------------- the registry ---------------------------- *)

\* The domains rules are tagged with, and the domain lists a caller passes.
Domains == {"a", "b"}

DomainLists == {<<>>} \cup { <<d>> : d \in Domains } \cup { <<d, e>> : d, e \in Domains }

\* The group names, the descriptions and the metadata a caller passes; ""
\* and NoMetadata are the zero values of registrationConfig.
Groups == {"", "g"}

Descriptions == {"", "d"}

NoMetadata == "nil"

Metadata == {NoMetadata, "m"}

\* A nil Rule where a pointer to a rule is expected; the rules constructed
\* are numbered from 1.
NilPointer == 0

\* The elements of a slice.
Range(s) == { s[i] : i \in 1..Len(s) }

\* registrationConfig after the options are applied.
registrationConfig(domains, group, description, metadata) ==
  [domains |-> domains, group |-> group, description |-> description,
   metadata |-> metadata]

\* The RegisteredRule a registration creates.
RegisteredRule(r, domains, group, description, metadata) ==
  [Rule |-> r, Domains |-> domains, Group |-> group, Description |-> description,
   Metadata |-> metadata]

\* deduplicateDomains: the first occurrence of each domain, in order.
deduplicateDomains(domains) ==
  LET RECURSIVE Loop(_, _)
      Loop(i, res) ==
        IF i > Len(domains) THEN res
        ELSE IF domains[i] \in Range(res) THEN Loop(i + 1, res)
        ELSE Loop(i + 1, Append(res, domains[i]))
  IN Loop(1, <<>>)

\* NewRegistry: the empty map from rule pointers to registrations.
NewRegistry == [p \in {} |-> RegisteredRule(NilPointer, <<>>, "", "", NoMetadata)]

\* defaultRegistry.Register creating a second registration for a rule that
\* has one, under a key of its own.
defaultRegistryRegisterAgain(rules, r, config) ==
  LET domains == deduplicateDomains(config.domains)
      key == IF r \in DOMAIN rules THEN r + 100 ELSE r
  IN [p \in DOMAIN rules \cup {key} |->
        IF p = key
        THEN RegisteredRule(r, domains, config.group, config.description, config.metadata)
        ELSE rules[p]]

\* defaultRegistry.Register on the map `rules`: an existing registration is
\* updated with what the options supply, a new one is created otherwise.
defaultRegistryRegister(rules, r, config) ==
  LET domains == deduplicateDomains(config.domains) IN
  IF r \in DOMAIN rules
  THEN [rules EXCEPT ![r] =
          [@ EXCEPT !.Domains = IF Len(domains) > 0 THEN domains ELSE @,
                    !.Group = IF config.group # "" THEN config.group ELSE @,
                    !.Description = IF config.description # "" THEN config.description ELSE @,
                    !.Metadata = IF config.metadata # NoMetadata THEN config.metadata ELSE @]]
  ELSE [p \in DOMAIN rules \cup {r} |->
          IF p = r
          THEN RegisteredRule(r, domains, config.group, config.description, config.metadata)
          ELSE rules[p]]

\* defaultRegistry.UpdateDescription and UpdateMetadata: silently nothing
\* for a rule that is not registered.
defaultRegistryUpdateDescription(rules, r, description) ==
  IF r \in DOMAIN rules THEN [rules EXCEPT ![r].Description = description] ELSE rules

defaultRegistryUpdateMetadata(rules, r, metadata) ==
  IF r \in DOMAIN rules THEN [rules EXCEPT ![r].Metadata = metadata] ELSE rules

\* defaultRegistry.AllRules: the registrations, in no particular order.
AllRules(rules) == { rules[p] : p \in DOMAIN rules }

\* The slices with the elements of the set S, each once.
Orderings(S) ==
  { s \in [1..Cardinality(S) -> S] : Range(s) = S }

\* collectDomainsFromRules taking the domains of the first child only.
collectDomainsFromRulesFirstChild(rules, children) ==
  LET domainSet == UNION { Range(registered.Domains) :
                            registered \in { e \in AllRules(rules) :
                               Len(children) > 0 /\ e.Rule = children[1] } }
  IN Orderings(domainSet)

\* collectDomainsFromRules: the domains of the registered non-nil children;
\* the slice is filled from a map, so it may come in any order.
collectDomainsFromRules(rules, children) ==
  LET domainSet == UNION { Range(registered.Domains) :
                            registered \in { e \in AllRules(rules) :
                               \E i \in 1..Len(children) :
                                  children[i] # NilPointer /\ e.Rule = children[i] } }
  IN Orderings(domainSet)

\* A call that concerns the registry, with its arguments: the rule it is
\* about, the child rules of a combinator, the options of a registration.
Op(name, r, children, config) ==
  [name |-> name, rule |-> r, children |-> children, config |-> config]

NoConfig == registrationConfig(<<>>, "", "", NoMetadata)

NoOp == Op("none", NilPointer, <<>>, NoConfig)

\* The argument lists of a combinator when n rules exist: at most two
\* children, each nil or one of the rules.
ChildLists(n) ==
  {<<>>} \cup { <<c>> : c \in 0..n } \cup { <<c, d>> : c, d \in 0..n }

(* ------------------------------ the Builder ---------------------------- *)

\* A slice: its backing array (0 is the array of no cells that every
\* make([]Rule[T], 0) shares), its length and its capacity.
Slice(array, len, cap) == [array |-> array, len |-> len, cap |-> cap]

\* make([]Rule[T], 0).
makeSlice == Slice(0, 0, 0)

\* The elements of slice s on heap h.
Elements(h, s) == [i \in 1..s.len |-> h[s.array][i]]

\* No backing array is allocated.
NoArrays == [a \in {} |-> <<>>]

\* append(s, x): written into the backing array where it has room, into a
\* new array of twice the capacity otherwise; the heap and the slice after.
append(h, s, x) ==
  IF s.len < s.cap
  THEN [heap |-> [h EXCEPT ![s.array][s.len + 1] = x],
        slice |-> Slice(s.array, s.len + 1, s.cap)]
  ELSE LET newcap == IF s.cap = 0 THEN 1 ELSE 2 * s.cap
           cells == [i \in 1..newcap |->
                       IF i <= s.len THEN h[s.array][i]
                       ELSE IF i = s.len + 1 THEN x ELSE NilRule]
           array == CHOOSE a \in 1..(Cardinality(DOMAIN h) + 1) : a \notin DOMAIN h
       IN [heap |-> [a \in DOMAIN h \cup {array} |-> IF a = array THEN cells ELSE h[a]],
           slice |-> Slice(array, s.len + 1, newcap)]

\* The heap once the arrays no slice in `slices` points into are collected.
collect(h, slices) ==
  [a \in DOMAIN h \cap { s.array : s \in slices } |-> h[a]]

\* NewBuilder: a Builder with no rules.
NewBuilder == [rules |-> makeSlice]

\* Builder.Clear emptying the slice it has.
BuilderClearReslices(self) ==
  [self EXCEPT !.rules = Slice(@.array, 0, @.cap)]

\* Builder.Clear: a new empty slice.
BuilderClear(self) == [self EXCEPT !.rules = makeSlice]

\* Builder.Count.
BuilderCount(self) == self.rules.len

\* The rule And(name, rules...) or Or(name, rules...) is, given its slice's
\* elements.
BuiltRule(kind, rules) ==
  IF kind = "and" THEN And(RootName, rules) ELSE Or(RootName, rules)

\* No Builder is in use.
NoBuilder ==
  /\ heap = NoArrays /\ builder = NewBuilder /\ built = <<>> /\ added = 0

(* --------------------------- the state machine ------------------------- *)

\* The root rules built by Combine, Combine3 and CombineMany.
Combinations ==
  CombineRules(RootName) \cup Combine3Rules(RootName) \cup CombineManyRules(RootName)

\* The zero (bool, error) pair and the zero Result.
NoReturn == [satisfied |-> FALSE, err |-> NoError]

NoResult == Result(FALSE, <<>>, NoError, <<>>)

\* A rule has been built and an input chosen; nothing is evaluated yet.
Init ==
  /\ \/ rule \in Rules(RootName, MaxNodes)
     \/ rule \in QuantifierRules(RootName, MaxNodes)
     \/ rule \in Combinations
  /\ input \in Inputs
  /\ pc = "built"
  /\ ret = NoReturn
  /\ calls = <<>>
  /\ result = NoResult
  /\ unsatisfied = <<>>
  /\ registry = NewRegistry
  /\ allocated = 0
  /\ op = NoOp
  /\ before = NewRegistry
  /\ NoBuilder

\* rule.Evaluate(input), which is also Evaluator.EvaluateFast.
RuleEvaluate ==
  /\ pc = "built"
  /\ LET res == Evaluate(rule, input) IN
       /\ ret' = [satisfied |-> res.satisfied, err |-> res.err]
       /\ calls' = res.calls
  /\ pc' = "Evaluate"
  /\ UNCHANGED <<rule, input, result, unsatisfied>>
  /\ UNCHANGED <<registryVars, builderVars>>

\* NewEvaluator(rule).Evaluate(input).
EvaluatorEvaluateCall ==
  /\ pc = "built"
  /\ LET res == EvaluatorEvaluate(rule, input) IN
       /\ result' = res.result
       /\ calls' = res.calls
  /\ pc' = "EvaluatorEvaluate"
  /\ UNCHANGED <<rule, input, ret, unsatisfied>>
  /\ UNCHANGED <<registryVars, builderVars>>

\* NewEvaluator(rule).EvaluateDetailed(input).
EvaluateDetailed ==
  /\ pc = "built"
  /\ LET res == evaluateRuleDetailed(rule, input, FALSE) IN
       /\ result' = res.result
       /\ calls' = res.calls
  /\ pc' = "EvaluateDetailed"
  /\ UNCHANGED <<rule, input, ret, unsatisfied>>
  /\ UNCHANGED <<registryVars, builderVars>>

\* NewEvaluator(rule).EvaluateDetailedShortCircuit(input).
EvaluateDetailedShortCircuit ==
  /\ pc = "built"
  /\ LET res == evaluateRuleDetailed(rule, input, TRUE) IN
       /\ result' = res.result
       /\ calls' = res.calls
  /\ pc' = "EvaluateDetailedShortCircuit"
  /\ UNCHANGED <<rule, input, ret, unsatisfied>>
  /\ UNCHANGED <<registryVars, builderVars>>

\* result.UnsatisfiedRules(), on the Result an evaluator call returned.
ResultUnsatisfiedRules ==
  /\ pc \in {"EvaluatorEvaluate", "EvaluateDetailed", "EvaluateDetailedShortCircuit"}
  /\ unsatisfied' = UnsatisfiedRules(result)
  /\ pc' = "UnsatisfiedRules"
  /\ UNCHANGED <<rule, input, ret, calls, result>>
  /\ UNCHANGED <<registryVars, builderVars>>

(* ------------------- the registry's state machines --------------------- *)

\* No evaluator call is in progress.
EvaluatorIdle ==
  /\ rule = NilRule /\ input = 0 /\ pc = "built" /\ ret = NoReturn
  /\ calls = <<>> /\ result = NoResult /\ unsatisfied = <<>>

\* New: a simple rule is constructed; the registry is not touched.
NewSimple ==
  /\ allocated < MaxRules
  /\ allocated' = allocated + 1
  /\ op' = Op("New", allocated + 1, <<>>, NoConfig)
  /\ before' = registry
  /\ UNCHANGED <<registry, evaluatorVars, builderVars>>

\* What And, Or, Not, AtLeast, Exactly and AtMost do once the rule is
\* there: collect the children's domains and register the rule with them
\* if there are any.
construct(name, children) ==
  /\ allocated < MaxRules
  /\ \E domains \in collectDomainsFromRules(registry, children) :
       registry' = IF Len(domains) > 0
                   THEN defaultRegistryRegister(registry, allocated + 1,
                                                registrationConfig(domains, "", "", NoMetadata))
                   ELSE registry
  /\ allocated' = allocated + 1
  /\ op' = Op(name, allocated + 1, children, NoConfig)
  /\ before' = registry
  /\ UNCHANGED <<evaluatorVars, builderVars>>

NewAnd == \E children \in ChildLists(allocated) : construct("And", children)

NewOr == \E children \in ChildLists(allocated) : construct("Or", children)

NewNot == \E child \in 0..allocated : construct("Not", <<child>>)

NewAtLeast == \E children \in ChildLists(allocated) : construct("AtLeast", children)

NewExactly == \E children \in ChildLists(allocated) : construct("Exactly", children)

NewAtMost == \E children \in ChildLists(allocated) : construct("AtMost", children)

\* Register(rule, opts...) on the default registry.
RegisterCall(r, config) ==
  /\ registry' = defaultRegistryRegister(registry, r, config)
  /\ op' = Op("Register", r, <<>>, config)
  /\ before' = registry
  /\ UNCHANGED <<allocated, evaluatorVars, builderVars>>

\* Register(rule, WithDomains(domains...)).
RegisterWithDomains ==
  \E r \in 1..allocated, domains \in DomainLists :
     RegisterCall(r, registrationConfig(domains, "", "", NoMetadata))

\* The options of a registration with the given domains and at most one of
\* a group name, a description and metadata.
Options(domains) ==
  { registrationConfig(domains, group, "", NoMetadata) : group \in Groups }
    \cup { registrationConfig(domains, "", description, NoMetadata) :
             description \in Descriptions }
    \cup { registrationConfig(domains, "", "", metadata) : metadata \in Metadata }

\* Register(rule, opts...).
Register ==
  \E r \in 1..allocated, domains \in DomainLists :
     \E config \in Options(domains) : RegisterCall(r, config)

UpdateDescription ==
  \E r \in 1..allocated, description \in Descriptions :
     /\ registry' = defaultRegistryUpdateDescription(registry, r, description)
     /\ op' = Op("UpdateDescription", r, <<>>, registrationConfig(<<>>, "", description, NoMetadata))
     /\ before' = registry
     /\ UNCHANGED <<allocated, evaluatorVars, builderVars>>

UpdateMetadata ==
  \E r \in 1..allocated, metadata \in Metadata \ {NoMetadata} :
     /\ registry' = defaultRegistryUpdateMetadata(registry, r, metadata)
     /\ op' = Op("UpdateMetadata", r, <<>>, registrationConfig(<<>>, "", "", metadata))
     /\ before' = registry
     /\ UNCHANGED <<allocated, evaluatorVars, builderVars>>

Clear ==
  /\ registry' = NewRegistry
  /\ op' = Op("Clear", NilPointer, <<>>, NoConfig)
  /\ before' = registry
  /\ UNCHANGED <<allocated, evaluatorVars, builderVars>>

\* Rules are constructed and tagged with domains, on an empty registry.
InheritInit ==
  /\ EvaluatorIdle
  /\ registry = NewRegistry /\ allocated = 0 /\ op = NoOp /\ before = NewRegistry
  /\ NoBuilder

InheritNext ==
  \/ NewSimple
  \/ NewAnd
  \/ NewOr
  \/ NewNot
  \/ NewAtLeast
  \/ NewExactly
  \/ NewAtMost
  \/ RegisterWithDomains

InheritSpec == InheritInit /\ [][InheritNext]_vars

\* The registry's own calls, on rules that exist.
RegistryInit ==
  /\ EvaluatorIdle
  /\ registry = NewRegistry /\ allocated = MaxRegistered /\ op = NoOp
  /\ before = NewRegistry
  /\ NoBuilder

RegistryNext ==
  \/ Register
  \/ UpdateDescription
  \/ UpdateMetadata
  \/ Clear

RegistrySpec == RegistryInit /\ [][RegistryNext]_vars

(* --------------------- the Builder's state machine --------------------- *)

\* The slices of the rules built.
BuiltSlices == { built[i].rules : i \in 1..Len(built) }

\* b.rules = append(b.rules, r), the body of Add, AddSimple and AddCondition.
add(r) ==
  /\ pc = "built"
  /\ BuilderCount(builder) < MaxCount
  /\ LET res == append(heap, builder.rules, r) IN
       /\ heap' = collect(res.heap, {res.slice} \cup BuiltSlices)
       /\ builder' = [builder EXCEPT !.rules = res.slice]
  /\ added' = added + 1
  /\ UNCHANGED <<built, evaluatorVars, registryVars>>

\* The name of the next rule added: its place in the Builder.
NextName == <<BuilderCount(builder) + 1>>

\* Add(rule): a rule made elsewhere.
BuilderAdd == add(New(NextName, "failing"))

\* AddSimple(name, predicate).
BuilderAddSimple == add(New(NextName, "positive"))

\* AddCondition(name, condition): the predicate returns (condition(input), nil).
BuilderAddCondition == add(New(NextName, "positive"))

\* BuildAnd, BuildOr: And(name, b.rules...) and Or(name, b.rules...) keep the
\* Builder's slice; the rules added are not registered, so the constructor
\* registers nothing. One of the rules built is followed.
build(kind) ==
  /\ pc = "built"
  /\ built = <<>>
  /\ built' = <<[kind |-> kind, rules |-> builder.rules,
                 held |-> Elements(heap, builder.rules)]>>
  /\ UNCHANGED <<heap, builder, added, evaluatorVars, registryVars>>

BuildAnd == build("and")

BuildOr == build("or")

BuilderClearCall ==
  /\ pc = "built"
  /\ builder' = BuilderClear(builder)
  /\ heap' = collect(heap, {builder'.rules} \cup BuiltSlices)
  /\ added' = 0
  /\ UNCHANGED <<built, evaluatorVars, registryVars>>

\* Evaluate on the rule the Builder built.
BuiltEvaluate ==
  /\ pc = "built"
  /\ \E i \in 1..Len(built), x \in Inputs :
       LET r == BuiltRule(built[i].kind, Elements(heap, built[i].rules))
           res == Evaluate(r, x)
       IN /\ rule' = r
          /\ input' = x
          /\ ret' = [satisfied |-> res.satisfied, err |-> res.err]
          /\ calls' = res.calls
          /\ pc' = "Evaluate"
          /\ UNCHANGED <<result, unsatisfied, registryVars, builderVars>>

BuilderInit ==
  /\ EvaluatorIdle
  /\ registry = NewRegistry /\ allocated = 0 /\ op = NoOp /\ before = NewRegistry
  /\ NoBuilder

BuilderNext ==
  \/ BuilderAdd
  \/ BuilderAddSimple
  \/ BuilderAddCondition
  \/ BuildAnd
  \/ BuildOr
  \/ BuilderClearCall
  \/ BuiltEvaluate

BuilderSpec == BuilderInit /\ [][BuilderNext]_vars

Next ==
  \/ RuleEvaluate
  \/ EvaluatorEvaluateCall
  \/ EvaluateDetailed
  \/ EvaluateDetailedShortCircuit
  \/ ResultUnsatisfiedRules

Spec == Init /\ [][Next]_vars

TypeOK ==
  /\ pc \in {"built", "Evaluate", "EvaluatorEvaluate", "EvaluateDetailed",
             "EvaluateDetailedShortCircuit", "UnsatisfiedRules"}
  /\ input \in Inputs
  /\ ret.satisfied \in BOOLEAN

(* ------------------------ vocabulary of the claims --------------------- *)

\* Path p is a prefix of path q: the node named q is the node named p or
\* lies below it.
IsPrefix(p, q) == Len(p) <= Len(q) /\ SubSeq(q, 1, Len(p)) = p

\* Path p comes before path q in pre-order (declared order).
PathLess(p, q) ==
  \/ Len(p) < Len(q) /\ IsPrefix(p, q)
  \/ \E k \in 1..Len(p) :
       /\ k <= Len(q)
       /\ SubSeq(p, 1, k - 1) = SubSeq(q, 1, k - 1)
       /\ p[k] < q[k]

\* Some user function of the node named `name`, or of a node below it, was
\* invoked in the log.
Invoked(log, name) == \E k \in 1..Len(log) : IsPrefix(name, log[k].name)

\* The input a rule passes to its children.
ChildInput(r, x) == IF r.kind = "mapped" THEN Mapper(r.fn, x) ELSE x

RECURSIVE Reached(_, _)
\* Every non-nil node of the tree r, with the input it receives when r is
\* evaluated on x.
Reached(r, x) ==
  {[node |-> r, x |-> x]} \cup
  UNION { Reached(r.rules[i], ChildInput(r, x)) :
          i \in {j \in 1..Len(r.rules) : r.rules[j] # NilRule} }

\* Child i of r is there and evaluates on x without error.
ErrorFree(r, i, x) ==
  r.rules[i] # NilRule /\ Evaluate(r.rules[i], x).err = NoError

\* Child i of r is there and evaluates on x to (b, nil).
Yields(r, i, x, b) ==
  ErrorFree(r, i, x) /\ Evaluate(r.rules[i], x).satisfied = b

\* A combinator of kind k was evaluated by rule.Evaluate(input).
Evaluated(k) == pc = "Evaluate" /\ rule.kind = k

\* Every child of the rule is there and evaluates without error.
AllErrorFree == \A i \in 1..Len(rule.rules) : ErrorFree(rule, i, input)

(* ------------------------------- claims -------------------------------- *)

\* C1: an AND rule with a non-empty, nil-free child list whose children all
\* evaluate without error returns (true, nil) iff every child evaluates to
\* true, and (false, nil) otherwise; a non-empty list of always-true rules
\* yields (true, nil).
C1_AndAllChildren ==
  (Evaluated("and") /\ Len(rule.rules) > 0 /\ AllErrorFree) =>
     /\ ret.err = NoError
     /\ ret.satisfied = (\A i \in 1..Len(rule.rules) : Yields(rule, i, input, TRUE))
     /\ (\A i \in 1..Len(rule.rules) : rule.rules[i].fn = "Always") => ret.satisfied

\* An AND of three error-free children, the first two true and the last
\* false, has returned (false, nil).
C1_Witness ==
  /\ Evaluated("and") /\ Len(rule.rules) = 3 /\ AllErrorFree
  /\ Yields(rule, 1, input, TRUE) /\ Yields(rule, 2, input, TRUE)
  /\ Yields(rule, 3, input, FALSE)
  /\ ret = [satisfied |-> FALSE, err |-> NoError]

\* C2: an OR rule with a non-empty, nil-free child list whose children all
\* evaluate without error returns (true, nil) iff some child evaluates to
\* true, and (false, nil) only when all children evaluated to false; a
\* non-empty list of always-false rules yields (false, nil).
C2_OrSomeChild ==
  (Evaluated("or") /\ Len(rule.rules) > 0 /\ AllErrorFree) =>
     /\ ret.err = NoError
     /\ ret.satisfied = (\E i \in 1..Len(rule.rules) : Yields(rule, i, input, TRUE))
     /\ ~ret.satisfied => \A i \in 1..Len(rule.rules) : Invoked(calls, rule.rules[i].name)
     /\ (\A i \in 1..Len(rule.rules) : rule.rules[i].fn = "Never") => ~ret.satisfied

\* An OR of three error-free children, the first two false and the last
\* true, has returned (true, nil).
C2_Witness ==
  /\ Evaluated("or") /\ Len(rule.rules) = 3 /\ AllErrorFree
  /\ Yields(rule, 1, input, FALSE) /\ Yields(rule, 2, input, FALSE)
  /\ Yields(rule, 3, input, TRUE)
  /\ ret = [satisfied |-> TRUE, err |-> NoError]

\* C3: Evaluate invokes user functions in declared order, and at every AND
\* node of the tree no sibling after a child that evaluates to false is
\* invoked, at every OR node no sibling after a child that evaluates to true.
C3_ShortCircuit ==
  pc = "Evaluate" =>
     /\ \A k \in 1..Len(calls), l \in 1..Len(calls) :
          k < l => PathLess(calls[k].name, calls[l].name)
     /\ \A at \in Reached(rule, input) :
          at.node.kind \in {"and", "or"} =>
            \A i \in 1..Len(at.node.rules), j \in 1..Len(at.node.rules) :
              (i < j /\ Yields(at.node, i, at.x, at.node.kind = "or"))
                 => ~Invoked(calls, Append(at.node.name, j))

\* And[alwaysFalse, r2, r3] was evaluated: only the first child was invoked.
C3_Witness ==
  /\ Evaluated("and") /\ Len(rule.rules) = 3
  /\ rule.rules[1].fn = "Never"
  /\ rule.rules[2].fn \in Predicates /\ rule.rules[3].fn \in Predicates
  /\ Len(calls) = 1 /\ calls[1].name = rule.rules[1].name

\* C4: an AND or OR rule with zero children returns (false, err) with err of
\* kind ErrEmptyRules on every input, and invokes no predicate.
C4_EmptyRules ==
  ((Evaluated("and") \/ Evaluated("or")) /\ Len(rule.rules) = 0) =>
     /\ ret.satisfied = FALSE
     /\ ret.err.cause = ErrEmptyRules.cause
     /\ calls = <<>>

\* An OR without children was evaluated.
C4_Witness ==
  /\ Evaluated("or") /\ Len(rule.rules) = 0
  /\ ret.err = Errorf("OR rule", rule.name, ErrEmptyRules)

\* The first child of the AND or OR rule r at which its loop stops on x: a
\* nil child, a child that errors, or a child that decides the result (false
\* for AND, true for OR); 0 when the loop runs to its end.
RECURSIVE StopFrom(_, _, _)
StopFrom(r, x, i) ==
  IF i > Len(r.rules) THEN 0
  ELSE IF ~Yields(r, i, x, r.kind = "and") THEN i
  ELSE StopFrom(r, x, i + 1)

Stop == StopFrom(rule, input, 1)

\* An AND or OR rule with a nil child, and no error in a child before it,
\* was evaluated.
NilChildReached ==
  /\ Evaluated("and") \/ Evaluated("or")
  /\ \E i \in 1..Len(rule.rules) :
       /\ rule.rules[i] = NilRule
       /\ \A j \in 1..(i - 1) : ErrorFree(rule, j, input)

\* C5, as claimed: And("x", validRule, nil).Evaluate(x) returns ErrNilRule
\* for every input and every non-nil error-free validRule, and Or likewise.
C5_NilChildAlwaysErrors ==
  ( /\ Evaluated("and") \/ Evaluated("or")
    /\ Len(rule.rules) = 2
    /\ ErrorFree(rule, 1, input)
    /\ rule.rules[2] = NilRule )
  => ret.err.cause = ErrNilRule.cause

\* C5, amended: an AND or OR rule with a nil child and no error before it
\* returns (false, ErrNilRule wrapped in its name) iff every child before the
\* first nil is satisfied (AND) or unsatisfied (OR); otherwise it returns the
\* short-circuit result, (false, nil) for AND and (true, nil) for OR.
C5_NilChildReached ==
  NilChildReached =>
     IF rule.rules[Stop] = NilRule
     THEN /\ ret.satisfied = FALSE
          /\ ret.err = Errorf(IF rule.kind = "and" THEN "AND rule" ELSE "OR rule",
                              rule.name, ErrNilRule)
     ELSE /\ ret.err = NoError
          /\ ret.satisfied = (rule.kind = "or")

\* And("x", validRule, nil) with validRule satisfied has returned ErrNilRule.
C5_Witness ==
  /\ Evaluated("and") /\ Len(rule.rules) = 2
  /\ Yields(rule, 1, input, TRUE) /\ rule.rules[2] = NilRule
  /\ ret.err.cause = ErrNilRule.cause

\* C6: Not.Evaluate returns the negation of its child's boolean when the
\* child evaluates without error, so Not(Not(r)) evaluates as r does for an
\* error-free r; a nil child yields ErrNilRule.
C6_NotNegates ==
  Evaluated("not") =>
     /\ ErrorFree(rule, 1, input) =>
          /\ ret.err = NoError
          /\ ret.satisfied = ~Evaluate(rule.rules[1], input).satisfied
     /\ (rule.rules[1].kind = "not" /\ ErrorFree(rule.rules[1], 1, input)) =>
          /\ ret.err = NoError
          /\ ret.satisfied = Evaluate(rule.rules[1].rules[1], input).satisfied
          /\ calls = Evaluate(rule.rules[1].rules[1], input).calls
     /\ rule.rules[1] = NilRule =>
          /\ ret.satisfied = FALSE
          /\ ret.err.cause = ErrNilRule.cause

\* Not(Not(r)) was evaluated for a satisfied, error-free AND rule r.
C6_Witness ==
  /\ Evaluated("not") /\ rule.rules[1].kind = "not"
  /\ rule.rules[1].rules[1].kind = "and"
  /\ Yields(rule.rules[1], 1, input, TRUE)
  /\ ret = [satisfied |-> TRUE, err |-> NoError]

\* C7: in And.Evaluate and Or.Evaluate the first child that returns an error
\* aborts the evaluation: the result is (false, that child's error wrapped),
\* no later sibling is invoked; and the error of a child after the
\* short-circuit point is not surfaced.
C7_FirstErrorAborts ==
  ((Evaluated("and") \/ Evaluated("or")) /\ Stop > 0 /\ rule.rules[Stop] # NilRule) =>
     LET res == Evaluate(rule.rules[Stop], input) IN
     IF res.err # NoError
     THEN /\ ret.satisfied = FALSE
          /\ ret.err = Errorf(IF rule.kind = "and" THEN "AND rule" ELSE "OR rule",
                              rule.name, res.err)
          /\ \A j \in (Stop + 1)..Len(rule.rules) :
               ~Invoked(calls, Append(rule.name, j))
     ELSE ret.err = NoError

\* An OR whose first child is unsatisfied, whose second child errors and
\* whose third child would be satisfied has returned the second's error.
C7_Witness ==
  /\ Evaluated("or") /\ Len(rule.rules) = 3
  /\ Yields(rule, 1, input, FALSE)
  /\ rule.rules[2].fn = "failing"
  /\ Yields(rule, 3, input, TRUE)
  /\ ret.err.cause = ErrEvaluationFailed.cause
  /\ Len(calls) = 2

\* The role a rule of each kind names itself by when it wraps an error.
Role(r) ==
  CASE r.kind = "simple" -> "rule"
    [] r.kind = "and"    -> "AND rule"
    [] r.kind = "or"     -> "OR rule"
    [] r.kind = "not"    -> "NOT rule"
    [] r.kind = "mapped" -> "mapped rule"

\* The node of the evaluated tree that is named `name`, with its input.
At(name) == CHOOSE at \in Reached(rule, input) : at.node.name = name

\* The node named `name` is where an error of the given cause arises.
Raises(name, cause) ==
  LET at == At(name) IN
  CASE cause = ErrEvaluationFailed.cause ->
         at.node.kind = "simple" /\ at.node.fn = "failing"
    [] cause = ErrNilRule.cause ->
         /\ at.node.kind \in {"and", "or", "not", "mapped"}
         /\ \E i \in 1..Len(at.node.rules) : at.node.rules[i] = NilRule
    [] cause = ErrEmptyRules.cause ->
         at.node.kind \in {"and", "or"} /\ Len(at.node.rules) = 0
    [] OTHER -> FALSE

\* C8: the error root.Evaluate returns is wrapped once by every node on the
\* path from the root to the node where it arose, outermost context the
\* root's, each context naming the node's role and name, and the cause
\* (predicate error, ErrNilRule or ErrEmptyRules) is that of the last node.
C8_Breadcrumb ==
  (pc = "Evaluate" /\ ret.err # NoError) =>
     LET chain == ret.err.chain IN
     /\ Len(chain) >= 1
     /\ chain[1].name = rule.name
     /\ \A k \in 1..Len(chain) :
          /\ \E at \in Reached(rule, input) : at.node.name = chain[k].name
          /\ chain[k].role = Role(At(chain[k].name).node)
     /\ \A k \in 1..(Len(chain) - 1) :
          \E j \in 1..Len(At(chain[k].name).node.rules) :
             chain[k + 1].name = Append(chain[k].name, j)
     /\ Raises(chain[Len(chain)].name, ret.err.cause)

\* A predicate failed three levels below the root: the error carries the
\* four contexts from the root to the leaf.
C8_Witness ==
  /\ pc = "Evaluate"
  /\ ret.err.cause = ErrEvaluationFailed.cause
  /\ Len(ret.err.chain) = 4
  /\ ret.err.chain[4].role = "rule"

RECURSIVE ResultNodes(_)
\* Every Result of a result tree.
ResultNodes(res) ==
  {res} \cup UNION { ResultNodes(res.Children[i]) : i \in 1..Len(res.Children) }

\* C9: every built-in rule returns (b, nil) or (false, err), also when the
\* user predicate returned (true, err); so in every Result the evaluator
\* produces, Error set implies Satisfied false.
C9_ErrorMeansUnsatisfied ==
  /\ pc = "Evaluate" => (ret.err # NoError => ret.satisfied = FALSE)
  /\ pc \in {"EvaluatorEvaluate", "EvaluateDetailed", "EvaluateDetailedShortCircuit"} =>
       \A res \in ResultNodes(result) : res.Error # NoError => res.Satisfied = FALSE

\* A predicate that returns (true, err) was evaluated in detailed mode below
\* a combinator: its Result has the error and is unsatisfied.
C9_Witness ==
  /\ pc = "EvaluateDetailed"
  /\ rule.kind \in {"and", "or", "not"}
  /\ \E res \in ResultNodes(result), at \in Reached(rule, input) :
       /\ at.node.name = res.RuleName /\ at.node.fn = "failing" /\ at.x > 0
       /\ res.Error # NoError /\ res.Satisfied = FALSE

\* The number of the first k children of r that are there and satisfied on x.
SatisfiedUpTo(r, x, k) == Cardinality({i \in 1..k : Yields(r, i, x, TRUE)})

\* A quantifier rule q was evaluated whose non-nil children are error-free.
QuantifierEvaluated(q) ==
  /\ pc = "Evaluate" /\ rule.kind = "simple" /\ rule.fn = q
  /\ \A i \in 1..Len(rule.rules) : rule.rules[i] # NilRule => ErrorFree(rule, i, input)

\* The result of AtLeast and the children it evaluates, for the thresholds
\* in N.
AtLeastCounts(N) ==
  (QuantifierEvaluated("AtLeast") /\ rule.n \in N) =>
     LET len == Len(rule.rules) IN
     /\ ret.err = NoError
     /\ ret.satisfied = (SatisfiedUpTo(rule, input, len) >= rule.n)
     /\ \A k \in 0..len :
          SatisfiedUpTo(rule, input, k) >= rule.n =>
            \A j \in (k + 1)..len : ~Invoked(calls, Append(rule.name, j))
     /\ ~ret.satisfied =>
          \A i \in 1..len : rule.rules[i] # NilRule => Invoked(calls, rule.rules[i].name)

\* C10: AtLeast with error-free children returns true iff the number of
\* non-nil children satisfied is >= n, returns true as soon as the running
\* count reaches n without evaluating any later child, and returns false
\* only after all non-nil children were evaluated.
C10_AtLeast == AtLeastCounts(Thresholds)

\* C10 for the thresholds n >= 1.
C10_AtLeastPositive == AtLeastCounts(1..MaxThreshold)

\* The number of calls in the log made at or below the node named `name`.
CallsOf(log, name) == Cardinality({k \in 1..Len(log) : IsPrefix(name, log[k].name)})

\* C11: Exactly with error-free children evaluates every non-nil child
\* exactly once, with no early exit, and returns true iff the number of
\* satisfied non-nil children equals n.
C11_Exactly ==
  QuantifierEvaluated("Exactly") =>
     LET len == Len(rule.rules) IN
     /\ ret.err = NoError
     /\ ret.satisfied = (SatisfiedUpTo(rule, input, len) = rule.n)
     /\ \A i \in 1..len :
          rule.rules[i] # NilRule => CallsOf(calls, rule.rules[i].name) = 1
     /\ Len(calls) = Cardinality({i \in 1..len : rule.rules[i] # NilRule})

\* Exactly(1, ...) over three satisfied children has evaluated all three,
\* though the count exceeded n at the second, and returned false.
C11_Witness ==
  /\ QuantifierEvaluated("Exactly") /\ rule.n = 1 /\ Len(rule.rules) = 3
  /\ \A i \in 1..3 : Yields(rule, i, input, TRUE)
  /\ Len(calls) = 3
  /\ ret = [satisfied |-> FALSE, err |-> NoError]

\* C12: AtMost with error-free children returns true iff the number of
\* non-nil children satisfied is <= n, for every integer n, and returns
\* false the moment the running count exceeds n.
C12_AtMost ==
  QuantifierEvaluated("AtMost") =>
     LET len == Len(rule.rules) IN
     /\ ret.err = NoError
     /\ ret.satisfied = (SatisfiedUpTo(rule, input, len) <= rule.n)
     /\ \A k \in 0..len :
          SatisfiedUpTo(rule, input, k) > rule.n =>
            \A j \in (k + 1)..len : ~Invoked(calls, Append(rule.name, j))

\* C12 for the thresholds n >= 0.
C12_AtMostNonNegative == rule.n >= 0 => C12_AtMost


\* A quantifier rule was evaluated by rule.Evaluate(input).
AnyQuantifierEvaluated ==
  pc = "Evaluate" /\ rule.kind = "simple" /\ rule.fn \in Quantifiers

\* The rule r with the nil entries of its child list removed.
WithoutNil(r) ==
  [r EXCEPT !.rules = SelectSeq(r.rules, LAMBDA c : c # NilRule)]

\* C13: AtLeast, Exactly and AtMost never return ErrNilRule for a nil entry:
\* the entry is skipped, and the result is that of the same rule over the
\* child list without its nil entries; AtLeast("x", 1, validRule, nil) is
\* satisfied when validRule is, Exactly("x", 0, nil, nil) is satisfied.
C13_NilSkipped ==
  AnyQuantifierEvaluated =>
     LET res == Evaluate(WithoutNil(rule), input) IN
     /\ ret.err.cause # ErrNilRule.cause
     /\ ret = [satisfied |-> res.satisfied, err |-> res.err]
     /\ calls = res.calls
     /\ ( /\ rule.fn = "AtLeast" /\ rule.n = 1 /\ Len(rule.rules) = 2
          /\ Yields(rule, 1, input, TRUE) /\ rule.rules[2] = NilRule )
        => ret = [satisfied |-> TRUE, err |-> NoError]
     /\ ( /\ rule.fn = "Exactly" /\ rule.n = 0 /\ Len(rule.rules) > 0
          /\ \A i \in 1..Len(rule.rules) : rule.rules[i] = NilRule )
        => ret = [satisfied |-> TRUE, err |-> NoError]

\* AtLeast(2, nil, r, nil) over an unsatisfied r has skipped both nil
\* entries and returned (false, nil).
C13_Witness ==
  /\ AnyQuantifierEvaluated /\ rule.fn = "AtLeast" /\ rule.n = 2
  /\ Len(rule.rules) = 3
  /\ rule.rules[1] = NilRule /\ rule.rules[3] = NilRule
  /\ Yields(rule, 2, input, FALSE)
  /\ Len(calls) = 1
  /\ ret = [satisfied |-> FALSE, err |-> NoError]

\* C14: AtLeast with n = 0 returns (true, nil) for any child list and any
\* input.
C14_AtLeastZero ==
  (AnyQuantifierEvaluated /\ rule.fn = "AtLeast" /\ rule.n = 0) =>
     ret = [satisfied |-> TRUE, err |-> NoError]

\* C14 for child lists whose non-nil children evaluate without error.
C14_AtLeastZeroErrorFree ==
  (QuantifierEvaluated("AtLeast") /\ rule.n = 0) =>
     ret = [satisfied |-> TRUE, err |-> NoError]

\* The loop of the quantifier r returns at child k without an error: AtLeast
\* when a satisfied child brings the count to n, AtMost when one brings it
\* above n, Exactly never.
ExitsAt(r, x, k) ==
  /\ Yields(r, k, x, TRUE)
  /\ CASE r.fn = "AtLeast" -> SatisfiedUpTo(r, x, k) >= r.n
       [] r.fn = "AtMost"  -> SatisfiedUpTo(r, x, k) > r.n
       [] OTHER            -> FALSE

\* The loop of the quantifier r gets to evaluate child i: the child is
\* there, and no child before it returned an error or ended the loop.
ReachedChild(r, x, i) ==
  /\ r.rules[i] # NilRule
  /\ \A k \in 1..(i - 1) :
       /\ r.rules[k] = NilRule \/ ErrorFree(r, k, x)
       /\ ~ExitsAt(r, x, k)

\* C15: in AtLeast, Exactly and AtMost the error of a child that is reached
\* aborts the quantifier: no later child is evaluated, and Evaluate returns
\* (false, err), err the child's error wrapped by the quantifier's name.
C15_QuantifierErrorAborts ==
  AnyQuantifierEvaluated =>
     \A i \in 1..Len(rule.rules) :
        (ReachedChild(rule, input, i) /\ ~ErrorFree(rule, i, input)) =>
           /\ ret.satisfied = FALSE
           /\ ret.err = Errorf("rule", rule.name, Evaluate(rule.rules[i], input).err)
           /\ \A j \in (i + 1)..Len(rule.rules) :
                ~Invoked(calls, Append(rule.name, j))

\* A quantifier whose first child is satisfied, whose second child fails
\* with (true, err) and whose third child is a user rule has returned the
\* second's error and not invoked the third.
C15_Witness ==
  /\ AnyQuantifierEvaluated /\ Len(rule.rules) = 3
  /\ Yields(rule, 1, input, TRUE)
  /\ rule.rules[2].fn = "failing" /\ input > 0
  /\ rule.rules[3].fn \in Predicates
  /\ ReachedChild(rule, input, 2)
  /\ ret.err.cause = ErrEvaluationFailed.cause
  /\ Len(ret.err.chain) = 2
  /\ Len(calls) = 2


\* What the inner rule of the mapped rule returns on the mapper's output.
InnerOnMapped == Evaluate(rule.rules[1], Mapper(rule.fn, input))

\* The mapper of the mapped rule ran once, on the input, before anything
\* else, and the rest of the log is the inner rule's on the mapper's output.
MappedOnce ==
  /\ calls = <<Call(rule.fn, rule.name, input)>> \o InnerOnMapped.calls
  /\ Cardinality({k \in 1..Len(calls) : calls[k].name = rule.name}) = 1

\* C16 as stated: Map(name, inner, extract).Evaluate(s) equals
\* inner.Evaluate(extract(s)), error included, and the extractor is applied
\* exactly once, its output being what the inner rule receives.
C16_MapEqualsInner ==
  (Evaluated("mapped") /\ rule.rules[1] # NilRule) =>
     /\ ret = [satisfied |-> InnerOnMapped.satisfied, err |-> InnerOnMapped.err]
     /\ MappedOnce

\* C16: Map(name, inner, extract).Evaluate(s) applies the extractor exactly
\* once and hands its output to inner; it returns inner's (b, nil) as it
\* is, and inner's error as (false, err) with err that error wrapped in
\* the mapped rule's name.
C16_MapDelegates ==
  (Evaluated("mapped") /\ rule.rules[1] # NilRule) =>
     /\ MappedOnce
     /\ InnerOnMapped.err = NoError =>
          ret = [satisfied |-> InnerOnMapped.satisfied, err |-> NoError]
     /\ InnerOnMapped.err # NoError =>
          ret = [satisfied |-> FALSE,
                 err |-> Errorf("mapped rule", rule.name, InnerOnMapped.err)]

\* Map over a failing rule, evaluated on 0: the predicate received 1 and the
\* error came back wrapped by the rule's and then the mapped rule's name.
C16_Witness ==
  /\ Evaluated("mapped") /\ rule.rules[1] # NilRule
  /\ rule.rules[1].fn = "failing" /\ input = 0
  /\ calls = <<Call(rule.fn, rule.name, 0), Call("failing", Append(rule.name, 1), 1)>>
  /\ ret.err.cause = ErrEvaluationFailed.cause
  /\ ret.err = Errorf("mapped rule", rule.name,
                      Errorf("rule", Append(rule.name, 1), ErrEvaluationFailed))

\* C17: Map with a nil inner rule is a rule; its Evaluate returns
\* (false, err), err being ErrNilRule wrapped in the mapped rule's name, and
\* does not invoke the extractor.
C17_MapNilInner ==
  \A at \in Reached(rule, input) :
     (pc = "Evaluate" /\ at.node.kind = "mapped" /\ at.node.rules[1] = NilRule) =>
        LET res == Evaluate(at.node, at.x) IN
        /\ res.satisfied = FALSE
        /\ res.err = Errorf("mapped rule", at.node.name, ErrNilRule)
        /\ ~Invoked(calls, at.node.name)
        /\ at.node = rule => ret = [satisfied |-> FALSE, err |-> res.err]

\* Map("m", nil, next) was built and evaluated: NilRule in the mapped rule's
\* name, no call.
C17_Witness ==
  /\ Evaluated("mapped") /\ rule.rules[1] = NilRule
  /\ ret = [satisfied |-> FALSE, err |-> Errorf("mapped rule", rule.name, ErrNilRule)]
  /\ calls = <<>>


\* A rule built by Combine, Combine3 or CombineMany was evaluated by
\* rule.Evaluate(input).
CombinationEvaluated ==
  pc = "Evaluate" /\ rule \in Combinations

\* What the i-th pair of the combination comes to: the rule's verdict on the
\* extractor's output, its error in the mapped rule's name, or NilRule for
\* a missing rule (in the mapped rule's name) or a missing list entry.
PairOutcome(i) ==
  LET m == rule.rules[i] IN
  IF m = NilRule THEN [satisfied |-> FALSE, err |-> ErrNilRule]
  ELSE IF m.rules[1] = NilRule
  THEN [satisfied |-> FALSE, err |-> Errorf("mapped rule", m.name, ErrNilRule)]
  ELSE LET res == Evaluate(m.rules[1], Mapper(m.fn, input)) IN
       IF res.err # NoError
       THEN [satisfied |-> FALSE, err |-> Errorf("mapped rule", m.name, res.err)]
       ELSE [satisfied |-> res.satisfied, err |-> NoError]

\* The first pair that does not come to (true, nil); 0 if there is none.
FirstUndecided ==
  LET U == {i \in 1..Len(rule.rules) : PairOutcome(i) # [satisfied |-> TRUE, err |-> NoError]}
  IN IF U = {} THEN 0 ELSE CHOOSE i \in U : \A j \in U : i <= j

\* C18: a rule built by Combine, Combine3 or CombineMany evaluates as the AND
\* of its mapped rules, in order and with short circuit: (true, nil) when
\* every rule is satisfied on its extractor's output; otherwise the outcome
\* of the first pair that is not, its error wrapped in the combination's
\* name, and neither the extractor nor the rule of any later pair is
\* invoked; every pair up to there has its extractor applied once.
C18_CombineIsAnd ==
  CombinationEvaluated =>
     LET len == Len(rule.rules)
         f == FirstUndecided
         last == IF f = 0 THEN len ELSE f
     IN
     /\ rule.kind = "and"
     /\ len = 0 => ret = [satisfied |-> FALSE,
                          err |-> Errorf("AND rule", rule.name, ErrEmptyRules)]
     /\ (len > 0 /\ f = 0) => ret = [satisfied |-> TRUE, err |-> NoError]
     /\ f # 0 =>
          /\ ret.satisfied = FALSE
          /\ ret.err = IF PairOutcome(f).err = NoError THEN NoError
                       ELSE Errorf("AND rule", rule.name, PairOutcome(f).err)
          /\ \A j \in (f + 1)..len : ~Invoked(calls, Append(rule.name, j))
     /\ \A i \in 1..last :
          (rule.rules[i] # NilRule /\ rule.rules[i].rules[1] # NilRule) =>
             /\ Cardinality({k \in 1..Len(calls) : calls[k].name = rule.rules[i].name}) = 1
             /\ \A k \in 1..Len(calls) :
                  calls[k].name = Append(rule.rules[i].name, 1) =>
                     calls[k].arg = Mapper(rule.rules[i].fn, input)

\* Combine over two user rules, the first not satisfied on its extractor's
\* output: (false, nil) after one extractor and one predicate call.
C18_Witness ==
  /\ pc = "Evaluate" /\ rule \in CombineRules(rule.name)
  /\ rule.rules[1].rules[1].fn \in Predicates
  /\ rule.rules[2].rules[1].fn \in Predicates
  /\ PairOutcome(1) = [satisfied |-> FALSE, err |-> NoError]
  /\ ret = [satisfied |-> FALSE, err |-> NoError]
  /\ calls = <<Call(rule.rules[1].fn, rule.rules[1].name, input),
               Call(rule.rules[1].rules[1].fn, rule.rules[1].rules[1].name,
                    Mapper(rule.rules[1].fn, input))>>


RECURSIVE Sound(_, _)
\* The tree r has no nil entry and no node that errors on x: no empty AND or
\* OR, and no rule the evaluator evaluates directly returns an error.
Sound(r, x) ==
  CASE r.kind \in {"and", "or"} ->
         /\ Len(r.rules) > 0
         /\ \A i \in 1..Len(r.rules) : r.rules[i] # NilRule /\ Sound(r.rules[i], x)
    [] r.kind = "not" -> r.rules[1] # NilRule /\ Sound(r.rules[1], x)
    [] OTHER -> Evaluate(r, x).err = NoError

RECURSIVE Complete(_, _)
\* The Result res is that of the rule r with every declared child of every
\* AND, OR and NOT node recorded, in order.
Complete(r, res) ==
  /\ res.RuleName = r.name
  /\ res.Error = NoError
  /\ IF r.kind \in {"and", "or", "not"}
     THEN /\ Len(res.Children) = Len(r.rules)
          /\ \A i \in 1..Len(r.rules) : Complete(r.rules[i], res.Children[i])
     ELSE res.Children = <<>>

\* C19: EvaluateDetailed on a tree with no nil child and no child that
\* errors records, at every AND and OR node of every depth, as many children
\* as the node declares, whatever the children's verdicts.
C19_DetailedComplete ==
  (pc = "EvaluateDetailed" /\ Sound(rule, input)) => Complete(rule, result)

\* And(fail1, fail2, fail3), all unsatisfied: three children recorded, three
\* predicates called.
C19_Witness ==
  /\ pc = "EvaluateDetailed" /\ rule.kind = "and" /\ Len(rule.rules) = 3
  /\ \A i \in 1..3 : Yields(rule, i, input, FALSE)
  /\ Len(result.Children) = 3
  /\ \A i \in 1..3 : ~result.Children[i].Satisfied
  /\ Len(calls) = 3
  /\ ~result.Satisfied

\* The first child of the AND or OR rule r, from child i on, that is there
\* and whose verdict on x decides r: not satisfied for AND, satisfied for
\* OR; 0 if there is none.
RECURSIVE DecidingFrom(_, _, _)
DecidingFrom(r, x, i) ==
  IF i > Len(r.rules) THEN 0
  ELSE IF r.rules[i] # NilRule /\ Evaluate(r.rules[i], x).satisfied = (r.kind = "or")
       THEN i
       ELSE DecidingFrom(r, x, i + 1)

\* C20 as stated, at the root: in EvaluateDetailedShortCircuit an AND or OR
\* node records its children up to and including the deciding child, and all
\* of its children when there is none.
C20_RecordsUpToDeciding ==
  (pc = "EvaluateDetailedShortCircuit" /\ rule.kind \in {"and", "or"}) =>
     LET d == DecidingFrom(rule, input, 1) IN
     Len(result.Children) = IF d = 0 THEN Len(rule.rules) ELSE d

RECURSIVE RecordedPrefix(_, _, _)
\* The Result res is that of the rule r on x in short-circuit mode: each AND
\* and OR node records its children up to the first that is nil (not
\* recorded), errors or decides it (recorded), all of them when there is no
\* such child, and invokes nothing under a later sibling.
RecordedPrefix(r, x, res) ==
  /\ res.RuleName = r.name
  /\ CASE r.kind \in {"and", "or"} ->
            LET stop == StopFrom(r, x, 1)
                len == IF stop = 0 THEN Len(r.rules)
                       ELSE IF r.rules[stop] = NilRule THEN stop - 1 ELSE stop
            IN /\ Len(res.Children) = len
               /\ \A i \in 1..len : RecordedPrefix(r.rules[i], x, res.Children[i])
               /\ \A j \in (len + 1)..Len(r.rules) :
                    ~Invoked(calls, Append(r.name, j))
       [] r.kind = "not" ->
            IF r.rules[1] = NilRule THEN res.Children = <<>>
            ELSE /\ Len(res.Children) = 1
                 /\ RecordedPrefix(r.rules[1], x, res.Children[1])
       [] OTHER -> res.Children = <<>>

\* C20: in EvaluateDetailedShortCircuit an AND node records its children up
\* to and including the first unsatisfied one, an OR node up to and
\* including the first satisfied one, and evaluates no further sibling; a
\* child that errors is recorded and ends the list as well, a nil entry ends
\* it unrecorded; a node with none of these records all its children; and
\* so at every nested node.
C20_ShortCircuitPrefix ==
  pc = "EvaluateDetailedShortCircuit" => RecordedPrefix(rule, input, result)

\* And(Or(a, b)) with a satisfied: the nested OR has recorded a alone, and b
\* was not invoked.
C20_Witness ==
  /\ pc = "EvaluateDetailedShortCircuit"
  /\ rule.kind = "and" /\ Len(rule.rules) = 1
  /\ rule.rules[1].kind = "or" /\ Len(rule.rules[1].rules) = 2
  /\ Yields(rule.rules[1], 1, input, TRUE)
  /\ rule.rules[1].rules[2].fn \in Predicates
  /\ Len(result.Children) = 1
  /\ Len(result.Children[1].Children) = 1
  /\ result.Satisfied
  /\ Len(calls) = 1


\* One of the two detailed evaluations has returned.
Detailed == pc \in {"EvaluateDetailed", "EvaluateDetailedShortCircuit"}

\* How often the log has a call of the function named `name`.
Invocations(log, name) == Cardinality({k \in 1..Len(log) : log[k].name = name})

RECURSIVE Leaves(_)
\* The leaf occurrences the evaluator meets in the tree r: the rules under
\* AND, OR and NOT nodes that it evaluates directly.
Leaves(r) ==
  IF r.kind \in {"and", "or", "not"}
  THEN UNION { Leaves(r.rules[i]) : i \in {j \in 1..Len(r.rules) : r.rules[j] # NilRule} }
  ELSE {r}

RECURSIVE FromChildren(_, _)
\* Every AND, OR and NOT node of the Result res of the rule r that has no
\* Error has the verdict its recorded children give: AND all satisfied, OR
\* one satisfied, NOT the child unsatisfied.
FromChildren(r, res) ==
  LET sat == {i \in 1..Len(res.Children) : res.Children[i].Satisfied} IN
  /\ (r.kind = "and" /\ res.Error = NoError) =>
        res.Satisfied = (sat = 1..Len(res.Children))
  /\ (r.kind = "or" /\ res.Error = NoError) => res.Satisfied = (sat # {})
  /\ (r.kind = "not" /\ res.Error = NoError) => res.Satisfied = (sat = {})
  /\ r.kind \in {"and", "or", "not"} =>
        \A i \in 1..Len(res.Children) : FromChildren(r.rules[i], res.Children[i])

\* C21: in one EvaluateDetailed or EvaluateDetailedShortCircuit call no
\* predicate or mapper is invoked twice; in EvaluateDetailed on a nil-free,
\* error-free tree every leaf's user function is invoked exactly once; and each
\* combinator's verdict is the one its recorded child results give.
C21_NoDoubleEvaluation ==
  Detailed =>
     /\ \A k \in 1..Len(calls) : Invocations(calls, calls[k].name) = 1
     /\ (pc = "EvaluateDetailed" /\ Sound(rule, input)) =>
           \A leaf \in Leaves(rule) :
              leaf.fn \in Predicates \cup Mappers => Invocations(calls, leaf.name) = 1
     /\ FromChildren(rule, result)

\* Or(a, b, c) over user rules, a satisfied, in EvaluateDetailed: three
\* predicate calls, one for each leaf.
C21_Witness ==
  /\ pc = "EvaluateDetailed" /\ Sound(rule, input)
  /\ rule.kind = "or" /\ Len(rule.rules) = 3
  /\ \A i \in 1..3 : rule.rules[i].fn \in Predicates
  /\ Yields(rule, 1, input, TRUE)
  /\ Cardinality(Leaves(rule)) = 3
  /\ Len(calls) = 3
  /\ \A leaf \in Leaves(rule) : Invocations(calls, leaf.name) = 1


\* C22 as stated: the root Result of EvaluateDetailed has the boolean of
\* root.Evaluate(input) and has Error set iff root.Evaluate(input) returns
\* an error, on every tree and input.
C22_DetailedAgrees ==
  pc = "EvaluateDetailed" =>
     LET res == Evaluate(rule, input) IN
     /\ result.Satisfied = res.satisfied
     /\ (result.Error # NoError) <=> (res.err # NoError)

\* C22: whenever the root Result of EvaluateDetailed has no Error,
\* root.Evaluate(input) returns no error and the same boolean; an Error
\* comes with Satisfied false, is set whenever root.Evaluate(input) errors,
\* and is not set on a tree without nil children, empty combinators and
\* erroring leaves.
C22_DetailedAgreesWithoutError ==
  pc = "EvaluateDetailed" =>
     LET res == Evaluate(rule, input) IN
     /\ result.Error = NoError =>
          (res.err = NoError /\ result.Satisfied = res.satisfied)
     /\ result.Error # NoError => ~result.Satisfied
     /\ res.err # NoError => result.Error # NoError
     /\ Sound(rule, input) => result.Error = NoError

\* Or(a, b, c) with only b satisfied, in EvaluateDetailed: all three
\* recorded, satisfied without error, as Evaluate says.
C22_Witness ==
  /\ pc = "EvaluateDetailed" /\ rule.kind = "or" /\ Len(rule.rules) = 3
  /\ Yields(rule, 1, input, FALSE) /\ Yields(rule, 2, input, TRUE)
  /\ Yields(rule, 3, input, FALSE)
  /\ Len(result.Children) = 3
  /\ result.Satisfied /\ result.Error = NoError
  /\ Evaluate(rule, input).satisfied

RECURSIVE InOrder(_, _)
\* The Result res is that of the rule r, the children of each AND, OR and
\* NOT node being the results of the first declared children, in declared
\* order, and the other nodes having none.
InOrder(r, res) ==
  /\ res.RuleName = Name(r)
  /\ IF r.kind \in {"and", "or", "not"}
     THEN /\ Len(res.Children) <= Len(r.rules)
          /\ \A i \in 1..Len(res.Children) :
               r.rules[i] # NilRule /\ InOrder(r.rules[i], res.Children[i])
     ELSE res.Children = <<>>

\* C23: in both detailed modes each combinator node's Children are the
\* results of a prefix of its declared children, in declared order (child i
\* of the Result carries the name of declared child i), and simple,
\* quantifier and mapped rules have no children.
C23_ChildrenInOrder == Detailed => InOrder(rule, result)

\* And(a, b, c) in short-circuit mode with a satisfied and b not: the
\* results of a and b, in that order.
C23_Witness ==
  /\ pc = "EvaluateDetailedShortCircuit" /\ rule.kind = "and" /\ Len(rule.rules) = 3
  /\ Yields(rule, 1, input, TRUE) /\ Yields(rule, 2, input, FALSE)
  /\ rule.rules[3] # NilRule
  /\ Len(result.Children) = 2
  /\ result.Children[1].RuleName = rule.rules[1].name /\ result.Children[1].Satisfied
  /\ result.Children[2].RuleName = rule.rules[2].name /\ ~result.Children[2].Satisfied


RECURSIVE ErrorAborts(_, _, _)
\* In the Result res of the rule r, evaluated with the given shortCircuit,
\* a child result with an Error is the last child of its parent, the parent
\* has Error set and Satisfied false, nothing under a later sibling was
\* invoked, and every recorded child is the child's own Result.
ErrorAborts(r, res, shortCircuit) ==
  r.kind \in {"and", "or", "not"} =>
     \A i \in 1..Len(res.Children) :
        /\ res.Children[i].Error # NoError =>
             /\ i = Len(res.Children)
             /\ res.Error # NoError /\ ~res.Satisfied
             /\ \A j \in (i + 1)..Len(r.rules) : ~Invoked(calls, Append(r.name, j))
        /\ res.Children[i] = evaluateRuleDetailed(r.rules[i], input, shortCircuit).result
        /\ ErrorAborts(r.rules[i], res.Children[i], shortCircuit)

\* C25: in both detailed modes the first child result with an Error ends
\* its parent's aggregation: it is the parent's last child, no further
\* sibling is evaluated, the parent has Satisfied false and Error set, so
\* every ancestor of a node with Error has Error; the siblings recorded
\* before keep their own results.
C25_ErrorAbortsAggregation ==
  /\ Detailed => ErrorAborts(rule, result, pc = "EvaluateDetailedShortCircuit")
  /\ Detailed =>
       \A node \in ResultNodes(result) :
          (\E i \in 1..Len(node.Children) : node.Children[i].Error # NoError) =>
             node.Error # NoError

\* And(a, b, c) in EvaluateDetailed with a unsatisfied and b erroring: a and
\* b recorded, a unsatisfied without Error, c not invoked, the AND in error.
C25_Witness ==
  /\ pc = "EvaluateDetailed" /\ rule.kind = "and" /\ Len(rule.rules) = 3
  /\ Yields(rule, 1, input, FALSE)
  /\ rule.rules[2].fn = "failing" /\ rule.rules[3].fn \in Predicates
  /\ Len(result.Children) = 2
  /\ result.Children[1].Error = NoError /\ ~result.Children[1].Satisfied
  /\ result.Children[2].Error # NoError
  /\ result.Error # NoError /\ ~result.Satisfied
  /\ Len(calls) = 2

\* C26: in both detailed modes every Result node with an Error carries it
\* wrapped with its own rule name, so that the root's Error names the rules
\* from the root to the failing node, as the error of root.Evaluate does.
C26_DetailedBreadcrumb ==
  Detailed =>
     \A node \in ResultNodes(result) :
        node.Error # NoError =>
           /\ Len(node.Error.chain) > 0
           /\ node.Error.chain[1].name = node.RuleName

\* C26 for the nodes the evaluator evaluates directly: their errors carry
\* their own names.
C26_LeafBreadcrumb ==
  Detailed =>
     \A node \in ResultNodes(result) :
        (node.Error # NoError /\ node.Error.chain # <<>>) =>
           \E at \in Reached(rule, input) :
              /\ at.node.name = node.Error.chain[1].name
              /\ at.node.kind \in {"simple", "mapped"}

\* C30: on every tree and input the root Result of
\* EvaluateDetailedShortCircuit has the boolean of root.Evaluate(input), has
\* Error set iff root.Evaluate(input) returns an error (of the same cause),
\* and the user functions are invoked in the same sequence.
C30_ShortCircuitAgrees ==
  pc = "EvaluateDetailedShortCircuit" =>
     LET res == Evaluate(rule, input) IN
     /\ result.Satisfied = res.satisfied
     /\ (result.Error # NoError) <=> (res.err # NoError)
     /\ result.Error.cause = res.err.cause
     /\ calls = res.calls

\* Or(Not(a), nil) with a a user rule that is not satisfied: satisfied
\* without Error after the one call Evaluate makes.
C30_Witness ==
  /\ pc = "EvaluateDetailedShortCircuit" /\ rule.kind = "or" /\ Len(rule.rules) = 2
  /\ rule.rules[1].kind = "not" /\ Yields(rule.rules[1], 1, input, FALSE)
  /\ rule.rules[2] = NilRule
  /\ result.Satisfied /\ result.Error = NoError
  /\ calls = Evaluate(rule, input).calls /\ Len(calls) = 1


\* C24: Result.UnsatisfiedRules() returns the names of exactly the nodes of
\* the result tree that are not satisfied, whatever their depth and their
\* parent's verdict, each once, in pre-order: a parent before its children,
\* the children from left to right.
C24_UnsatisfiedRules ==
  pc = "UnsatisfiedRules" =>
     /\ {unsatisfied[k] : k \in 1..Len(unsatisfied)} =
          {node.RuleName : node \in {n \in ResultNodes(result) : ~n.Satisfied}}
     /\ \A k, l \in 1..Len(unsatisfied) :
          k < l => PathLess(unsatisfied[k], unsatisfied[l])

\* Or(Not(failA), failB) in detailed mode: the OR and the NOT are satisfied,
\* and the unsatisfied rules are failA, below the satisfied NOT, and failB.
C24_Witness ==
  /\ pc = "UnsatisfiedRules" /\ rule.kind = "or" /\ Len(rule.rules) = 2
  /\ rule.rules[1].kind = "not"
  /\ result.Satisfied /\ Len(result.Children) = 2
  /\ result.Children[1].Satisfied /\ ~result.Children[2].Satisfied
  /\ unsatisfied = <<Append(rule.rules[1].name, 1), rule.rules[2].name>>

\* And(And(failA), failC) in detailed mode gives outer, inner, failA, failC.
C24_WitnessNested ==
  /\ pc = "UnsatisfiedRules" /\ rule.kind = "and" /\ Len(rule.rules) = 2
  /\ rule.rules[1].kind = "and"
  /\ unsatisfied = <<rule.name, rule.rules[1].name,
                     Append(rule.rules[1].name, 1), rule.rules[2].name>>


(* ------------------------- the default registry ------------------------ *)

\* The constructors that inherit domains.
Combinators == {"And", "Or", "Not", "AtLeast", "Exactly", "AtMost"}

\* The children of the last call that were registered with one or more
\* domains when it was made.
Tagged ==
  { c \in Range(op.children) \ {NilPointer} :
      c \in DOMAIN before /\ before[c].Domains # <<>> }

\* The union of the domains those children were registered with.
Inherited == UNION { Range(before[c].Domains) : c \in Tagged }

\* C27: a rule constructed by And, Or, Not, AtLeast, Exactly or AtMost is
\* registered iff one of its non-nil children is registered with one or more
\* domains at that moment, and then with exactly the union of its children's
\* registered domains, each once; no other entry changes, and with no such
\* child the registry is left as it was.
C27_DomainInheritance ==
  op.name \in Combinators =>
    /\ (op.rule \in DOMAIN registry) <=> (Tagged # {})
    /\ Tagged # {} =>
         /\ Range(registry[op.rule].Domains) = Inherited
         /\ Len(registry[op.rule].Domains) = Cardinality(Inherited)
    /\ \A p \in DOMAIN before : p \in DOMAIN registry /\ registry[p] = before[p]
    /\ Tagged = {} => registry = before

\* And(x, y) with x registered under "a" and y under "b" is registered under both.
C27_Witness ==
  /\ op.name = "And" /\ op.rule = 3 /\ op.children = <<1, 2>>
  /\ {1, 2} \subseteq DOMAIN before
  /\ before[1].Domains = <<"a">>
  /\ before[2].Domains = <<"b">>
  /\ Range(registry[3].Domains) = {"a", "b"}

\* Not(And(x)) inherits x's two domains through And(x); Or of an unregistered
\* rule and nil registers nothing.
C27_WitnessNested ==
  /\ op.name = "Not" /\ op.rule = 3 /\ op.children = <<2>>
  /\ 1 \in DOMAIN before /\ Len(before[1].Domains) = 2
  /\ 2 \in DOMAIN before /\ before[2].Domains = before[1].Domains
  /\ Range(registry[3].Domains) = {"a", "b"}

C27_WitnessUnregistered ==
  /\ op.name = "Or" /\ op.rule = 2 /\ op.children = <<1, NilPointer>>
  /\ registry = NewRegistry

\* No two registrations are for the same rule.
OnePerIdentity ==
  \A p, q \in DOMAIN registry : registry[p].Rule = registry[q].Rule => p = q

\* The last call registered a rule that was registered already.
Reregistered == op.name = "Register" /\ op.rule \in DOMAIN before

\* The registry after a registered rule is registered again and its domains
\* become `domains`: no entry more or less, group, description and metadata
\* replaced when supplied, the other entries as they were.
Reregistration(domains) ==
  /\ DOMAIN registry = DOMAIN before
  /\ registry[op.rule].Rule = op.rule
  /\ registry[op.rule].Domains = domains
  /\ registry[op.rule].Group =
       IF op.config.group # "" THEN op.config.group ELSE before[op.rule].Group
  /\ registry[op.rule].Description =
       IF op.config.description # "" THEN op.config.description
       ELSE before[op.rule].Description
  /\ registry[op.rule].Metadata =
       IF op.config.metadata # NoMetadata THEN op.config.metadata
       ELSE before[op.rule].Metadata
  /\ \A p \in DOMAIN before \ {op.rule} : registry[p] = before[p]

\* UpdateDescription and UpdateMetadata on a rule that is not registered
\* leave the registry as it was.
UpdateOfUnregistered ==
  (op.name \in {"UpdateDescription", "UpdateMetadata"} /\ op.rule \notin DOMAIN before)
    => registry = before

C28_WitnessNoDomains ==
  /\ Reregistered
  /\ before[op.rule].Domains = <<"a", "b">>
  /\ op.config.domains = <<>>
  /\ registry[op.rule].Domains = <<"a", "b">>

\* UpdateMetadata on a rule that is not registered.
C28_WitnessUnregistered ==
  /\ op.name = "UpdateMetadata"
  /\ op.rule \notin DOMAIN before
  /\ registry = NewRegistry

(* ------------------------------ the Builder ---------------------------- *)

\* C29: a rule built by BuildAnd or BuildOr keeps, whatever is added to the
\* Builder or cleared from it afterwards, exactly the rules in the order the
\* Builder held when it was built, and evaluates as the AND or OR of those;
\* Count() is the number of rules added since the last Clear.
C29_BuiltRuleFixed ==
  /\ \A i \in 1..Len(built) : Elements(heap, built[i].rules) = built[i].held
  /\ BuilderCount(builder) = added
  /\ pc = "Evaluate" =>
       \E i \in 1..Len(built) :
          /\ rule = BuiltRule(built[i].kind, built[i].held)
          /\ ret.satisfied = Evaluate(rule, input).satisfied
          /\ ret.err = Evaluate(rule, input).err

\* A rule built from three rules still has them after a fourth is appended
\* into the backing array it shares with the Builder.
C29_Witness ==
  /\ Len(built) = 1
  /\ built[1].rules.len = 3
  /\ builder.rules.array = built[1].rules.array
  /\ BuilderCount(builder) = 4
  /\ added = 4

\* A rule built from one rule is evaluated after the Builder was cleared and
\* another rule added.
C29_WitnessReuse ==
  /\ pc = "Evaluate"
  /\ Len(built) = 1
  /\ built[1].held = <<New(<<1>>, "positive")>>
  /\ rule = And(RootName, built[1].held)
  /\ Elements(heap, builder.rules) = <<New(<<1>>, "failing")>>
  /\ added = 1
  /\ input = 1
  /\ ret.satisfied
====
